---- MODULE Spec2Model ----
(***************************************************************************)
(* Scoring engine of the OMR dashboard.                                    *)
(*                                                                         *)
(*   evaluateResponses  the Netlify processing function's evaluation of a  *)
(*                      sheet against the built-in answer keys of sets A   *)
(*                      and B (100 questions, five subjects of 20).        *)
(*   evaluateAnswers    the Express server's evaluation of detected        *)
(*                      bubbles against an exam's answer key and subjects. *)
(*                                                                         *)
(* A JavaScript string is a sequence of one-character strings, so that     *)
(* toLowerCase and trim are computed character by character.  A JavaScript *)
(* value that may be a string, null or undefined is a record with a kind.  *)
(***************************************************************************)
EXTENDS Integers, Sequences, FiniteSets, TLC

VARIABLES
    pc,                 \* "ready" / "done" for one evaluation, "serving" for a warm instance
    fn,                 \* the function the evaluation calls
    answerKeys,         \* the module-level answerKeys object of the processing function
    responses, examSet, \* the arguments of evaluateResponses
    detectedAnswers, answerKey, exam,   \* the arguments of evaluateAnswers
    result,             \* what the call returned, or the error it threw
    calls,              \* the requests a warm instance has served, in order
    exams,              \* the Express server's exams array
    clock,              \* Date.now(), of the server or of the page
    response,           \* the status code of the server's last response
    processingJobs,     \* the server's processingJobs array
    storedResults,      \* the server's results array
    tasks,              \* the processOMRFile calls that wait at an await
    spawned,            \* the OMR child processes the server has started
    arg,                \* the number a subject-map function is called with
    selectedExam,       \* Upload: the id of the selected exam
    uploadedFiles,      \* Upload: the names of the selected files
    jobs,               \* RealTimeProcessor: the jobs state
    processingResults,  \* RealTimeProcessor.startProcessing: its local array
    loop,               \* RealTimeProcessor.startProcessing: where it stands
    saved,              \* the results Upload has passed to addResult
    notified,           \* the callbacks the shown RealTimeProcessor has invoked
    displayed,          \* ImageUploader: its uploadedFiles state
    intervals,          \* ImageUploader: the ids whose progress interval runs
    supabase,           \* the Supabase tables exams and omr_results
    appContext,         \* AppContext: its exams and results state
    admin               \* Admin page: the form of a new exam and the toast shown

\* The processing state of the Express server.
jobVars == <<processingJobs, storedResults, tasks, spawned>>

\* The state of the Express server.
serverVars == <<exams, clock, response, jobVars>>

\* The state of the ImageUploader.
uploaderVars == <<displayed, intervals>>

\* The database and the state of the AppContext provider.
appVars == <<supabase, appContext, admin>>

\* The state of the Upload page and its RealTimeProcessor.
clientVars == <<selectedExam, uploadedFiles, jobs, processingResults, loop, saved,
               notified, uploaderVars, appVars>>

vars == <<pc, fn, answerKeys, responses, examSet, detectedAnswers, answerKey, exam,
          result, calls, serverVars, clientVars, arg>>

(***************************************************************************)
(* JavaScript values and string methods                                    *)
(***************************************************************************)
Str(s) == [kind |-> "string", chars |-> s]

Undefined == [kind |-> "undefined", chars |-> <<>>]

Null == [kind |-> "null", chars |-> <<>>]

\* Falsy values among strings, null and undefined: "", null, undefined.
Falsy(v) == v.kind # "string" \/ v.chars = <<>>

\* String.prototype.toLowerCase on the letters the sheets use.
ToLowerChar(c) ==
    CASE c = "A" -> "a" [] c = "B" -> "b" [] c = "C" -> "c"
      [] c = "D" -> "d" [] c = "E" -> "e" [] OTHER -> c

toLowerCase(s) == [i \in 1..Len(s) |-> ToLowerChar(s[i])]

ToUpperChar(c) ==
    CASE c = "a" -> "A" [] c = "b" -> "B" [] c = "c" -> "C"
      [] c = "d" -> "D" [] c = "e" -> "E" [] OTHER -> c

toUpperCase(s) == [i \in 1..Len(s) |-> ToUpperChar(s[i])]

IsWhitespace(c) == c \in {" ", "\t", "\n"}

RECURSIVE trimStart(_)
trimStart(s) ==
    IF s # <<>> /\ IsWhitespace(Head(s)) THEN trimStart(Tail(s)) ELSE s

RECURSIVE trimEnd(_)
trimEnd(s) ==
    IF s # <<>> /\ IsWhitespace(s[Len(s)])
    THEN trimEnd(SubSeq(s, 1, Len(s) - 1))
    ELSE s

trim(s) == trimEnd(trimStart(s))

DigitChar(d) ==
    CASE d = 0 -> "0" [] d = 1 -> "1" [] d = 2 -> "2" [] d = 3 -> "3"
      [] d = 4 -> "4" [] d = 5 -> "5" [] d = 6 -> "6" [] d = 7 -> "7"
      [] d = 8 -> "8" [] OTHER -> "9"

\* Number.prototype.toString for a non-negative integer: its decimal digits.
RECURSIVE NumberToString(_)
NumberToString(n) ==
    IF n < 10 THEN <<DigitChar(n)>>
    ELSE NumberToString(n \div 10) \o <<DigitChar(n % 10)>>

\* arr[i] with a 0-based index: undefined outside the array.
ArrayGet(arr, i) == IF i >= 0 /\ i < Len(arr) THEN arr[i + 1] ELSE Undefined

\* Array.prototype.includes on an array of strings.
Includes(arr, s) == \E k \in 1..Len(arr) : arr[k] = s

RECURSIVE GCD(_, _)
GCD(a, b) == IF b = 0 THEN a ELSE GCD(b, a % b)

\* (correct / total) * 100 as an exact fraction; 0/0 is NaN and x/0 Infinity.
Percent(correct, total) ==
    IF total = 0
    THEN [kind |-> IF correct = 0 THEN "NaN" ELSE "Infinity", num |-> 0, den |-> 0]
    ELSE LET g == GCD(correct * 100, total)
         IN  [kind |-> "number", num |-> (correct * 100) \div g, den |-> total \div g]

(***************************************************************************)
(* The built-in answer keys of the Netlify processing function             *)
(***************************************************************************)
SetALetters == <<
    "b", "a", "c", "d", "b", "a", "c", "b", "d", "a",
    "c", "b", "d", "a", "c", "a", "d", "b", "c", "a",
    "a", "c", "b", "d", "a", "c", "b", "a", "d", "c",
    "b", "a", "d", "c", "b", "a", "c", "d", "b", "a",
    "c", "a", "b", "d", "c", "a", "b", "c", "d", "a",
    "b", "c", "a", "d", "b", "c", "a", "d", "b", "a",
    "d", "b", "a", "c", "d", "b", "a", "d", "c", "b",
    "a", "d", "c", "b", "a", "d", "c", "b", "a", "d",
    "a", "d", "c", "b", "a", "d", "c", "a", "b", "d",
    "c", "a", "b", "d", "c", "a", "b", "d", "c", "a" >>

SetBLetters == <<
    "c", "b", "d", "a", "c", "b", "d", "c", "a", "b",
    "d", "c", "a", "b", "d", "b", "a", "c", "d", "b",
    "b", "d", "c", "a", "b", "d", "c", "b", "a", "d",
    "c", "b", "a", "d", "c", "b", "d", "a", "c", "b",
    "d", "b", "c", "a", "d", "b", "c", "d", "a", "b",
    "c", "d", "b", "a", "c", "d", "b", "a", "c", "b",
    "a", "c", "b", "d", "a", "c", "b", "a", "d", "c",
    "b", "a", "d", "c", "b", "a", "d", "c", "b", "a",
    "b", "a", "d", "c", "b", "a", "d", "b", "c", "a",
    "d", "b", "c", "a", "d", "b", "c", "a", "d", "b" >>

\* A key's letters as an array of one-letter strings.
RawAnswers(letters) == [i \in 1..Len(letters) |-> Str(<<letters[i]>>)]

\* specialCases: { "16": {acceptedAnswers: [a,b,c,d]}, "59": {acceptedAnswers: [a,b]} }
specialCasesAB ==
    (<<"1", "6">> :> [acceptedAnswers |-> << <<"a">>, <<"b">>, <<"c">>, <<"d">> >>])
    @@ (<<"5", "9">> :> [acceptedAnswers |-> << <<"a">>, <<"b">> >>])

\* The answerKeys object as the module creates it.
MockAnswerKeys ==
    [setA |-> [rawAnswers |-> RawAnswers(SetALetters), specialCases |-> specialCasesAB],
     setB |-> [rawAnswers |-> RawAnswers(SetBLetters), specialCases |-> specialCasesAB]]

\* answerKeys[examSet] || answerKeys.setA
KeyForSet(set) == IF set \in DOMAIN answerKeys THEN answerKeys[set] ELSE answerKeys.setA

getSubjectForQuestion(questionNum) ==
    IF questionNum >= 1 /\ questionNum <= 20 THEN "Python"
    ELSE IF questionNum >= 21 /\ questionNum <= 40 THEN "EDA"
    ELSE IF questionNum >= 41 /\ questionNum <= 60 THEN "SQL"
    ELSE IF questionNum >= 61 /\ questionNum <= 80 THEN "PowerBI"
    ELSE IF questionNum >= 81 /\ questionNum <= 100 THEN "Statistics"
    ELSE "Unknown"

(***************************************************************************)
(* evaluateResponses (Netlify processing function)                         *)
(***************************************************************************)
TotalQuestions == 100

SubjectTotal == 20

Subjects == <<"Python", "EDA", "SQL", "PowerBI", "Statistics">>

SubjectNames == {Subjects[k] : k \in 1..Len(Subjects)}

\* The results object literal and the subject scores it is given before the loop.
EmptyResults ==
    [totalQuestions |-> TotalQuestions,
     totalScore |-> 0,
     percentage |-> Percent(0, 1),
     subjectScores |->
        [s \in SubjectNames |->
            [correct |-> 0, total |-> SubjectTotal,
             percentage |-> Percent(0, 1), questions |-> <<>>]],
     detailedResults |-> <<>>,
     summary |-> [correct |-> 0, incorrect |-> 0, unanswered |-> 0]]

\* Mutant: results is kept at module level, so a request starts from the results
\* of the request before it.
StaleResults ==
    IF calls # <<>> /\ ~calls[Len(calls)].result.threw
    THEN calls[Len(calls)].result.value
    ELSE EmptyResults

\* The results object an evaluation starts from: a new one in each call.
NewResults == EmptyResults

\* Mutant: the loop runs over the entries of the response array.
LoopOverResponses(resps) == Len(resps)

\* for (let i = 0; i < 100; i++)
LoopBound(resps) == TotalQuestions

\* const studentAnswer = responses[i] || "";
StudentAnswer(resps, i) ==
    LET v == ArrayGet(resps, i) IN IF Falsy(v) THEN <<>> ELSE v.chars

\* Mutant: the test for an empty answer without trim().
IsUnansweredNoTrim(studentAnswer) == studentAnswer = <<>>

\* !studentAnswer || studentAnswer.trim() === ""
IsUnanswered(studentAnswer) == studentAnswer = <<>> \/ trim(studentAnswer) = <<>>

\* specialCases[questionNum.toString()] is truthy
HasSpecialCase(specialCases, questionNum) ==
    NumberToString(questionNum) \in DOMAIN specialCases

\* Mutant: the special cases are not looked at.
IsCorrectIgnoringSpecialCases(studentAnswer, correctAnswer, specialCases, questionNum) ==
    toLowerCase(studentAnswer) = toLowerCase(correctAnswer.chars)

\* Mutant: a special case adds accepted answers to the key's answer.
IsCorrectSpecialCaseAdded(studentAnswer, correctAnswer, specialCases, questionNum) ==
    \/ /\ HasSpecialCase(specialCases, questionNum)
       /\ Includes(specialCases[NumberToString(questionNum)].acceptedAnswers,
                   toLowerCase(studentAnswer))
    \/ /\ correctAnswer.kind = "string"
       /\ toLowerCase(studentAnswer) = toLowerCase(correctAnswer.chars)

\* Mutant: the student's answer is compared as written, without toLowerCase().
IsCorrectCaseSensitive(studentAnswer, correctAnswer, specialCases, questionNum) ==
    IF HasSpecialCase(specialCases, questionNum)
    THEN Includes(specialCases[NumberToString(questionNum)].acceptedAnswers, studentAnswer)
    ELSE studentAnswer = toLowerCase(correctAnswer.chars)

\* Mutant: only the first character of the student's answer is compared.
IsCorrectFirstCharacter(studentAnswer, correctAnswer, specialCases, questionNum) ==
    IF HasSpecialCase(specialCases, questionNum)
    THEN Includes(specialCases[NumberToString(questionNum)].acceptedAnswers,
                  toLowerCase(<<Head(studentAnswer)>>))
    ELSE toLowerCase(<<Head(studentAnswer)>>) = toLowerCase(correctAnswer.chars)

\* The comparison of an answered question (the special case first, else the key).
IsCorrectAnswer(studentAnswer, correctAnswer, specialCases, questionNum) ==
    IF HasSpecialCase(specialCases, questionNum)
    THEN Includes(specialCases[NumberToString(questionNum)].acceptedAnswers,
                  toLowerCase(studentAnswer))
    ELSE toLowerCase(studentAnswer) = toLowerCase(correctAnswer.chars)

\* correctAnswer.toLowerCase() on a key entry that is not there is a TypeError.
CompareThrows(correctAnswer, specialCases, questionNum) ==
    ~HasSpecialCase(specialCases, questionNum) /\ correctAnswer.kind # "string"

QuestionStatus(unanswered, isCorrect) ==
    IF unanswered THEN "unanswered"
    ELSE IF isCorrect THEN "correct" ELSE "incorrect"

\* Mutant: the else of the unanswered test is lost, so an unanswered question
\* is counted as incorrect too.
TallyBlankAsIncorrect(results, subject, status) ==
    IF status = "unanswered"
    THEN [results EXCEPT !.summary.unanswered = @ + 1, !.summary.incorrect = @ + 1]
    ELSE IF status = "correct"
    THEN [results EXCEPT !.totalScore = @ + 1,
                         !.summary.correct = @ + 1,
                         !.subjectScores[subject].correct = @ + 1]
    ELSE [results EXCEPT !.summary.incorrect = @ + 1]

\* The counters one question updates.
Tally(results, subject, status) ==
    IF status = "unanswered"
    THEN [results EXCEPT !.summary.unanswered = @ + 1]
    ELSE IF status = "correct"
    THEN [results EXCEPT !.totalScore = @ + 1,
                         !.summary.correct = @ + 1,
                         !.subjectScores[subject].correct = @ + 1]
    ELSE [results EXCEPT !.summary.incorrect = @ + 1]

TypeError == [error |-> "TypeError"]

\* One iteration of the loop, question i + 1: the results after it, or the
\* TypeError of reading a field of undefined (a key entry that is not there, or
\* the scores of a subject that is not one of the five).
EvalQuestion(results, i, resps, correctAnswers, specialCases) ==
    LET questionNum == i + 1
        subject == getSubjectForQuestion(questionNum)
        studentAnswer == StudentAnswer(resps, i)
        correctAnswer == ArrayGet(correctAnswers, i)
        unanswered == IsUnanswered(studentAnswer)
        isCorrect == /\ ~unanswered
                     /\ IsCorrectAnswer(studentAnswer, correctAnswer,
                                        specialCases, questionNum)
        status == QuestionStatus(unanswered, isCorrect)
        tallied == Tally(results, subject, status)
    IN  IF \/ ~unanswered /\ CompareThrows(correctAnswer, specialCases, questionNum)
           \/ subject \notin DOMAIN results.subjectScores
        THEN [threw |-> TRUE, value |-> TypeError]
        ELSE [threw |-> FALSE,
              value |->
                [tallied EXCEPT
                    !.detailedResults =
                        Append(@, [questionNumber |-> questionNum,
                                   subject |-> subject,
                                   studentAnswer |-> studentAnswer,
                                   correctAnswer |-> correctAnswer,
                                   isCorrect |-> isCorrect,
                                   status |-> status]),
                    !.subjectScores[subject].questions =
                        Append(@, [questionNumber |-> questionNum,
                                   isCorrect |-> isCorrect,
                                   status |-> status])]]

\* Iterations i .. n - 1 of the loop, in order, from the outcome so far; a
\* TypeError ends the loop.  The range is halved so that the evaluation of a
\* hundred iterations stays shallow.
RECURSIVE EvalLoop(_, _, _, _, _, _)
EvalLoop(acc, i, n, resps, correctAnswers, specialCases) ==
    IF acc.threw \/ i >= n THEN acc
    ELSE IF n - i = 1
    THEN EvalQuestion(acc.value, i, resps, correctAnswers, specialCases)
    ELSE LET mid == i + ((n - i) \div 2)
         IN  EvalLoop(EvalLoop(acc, i, mid, resps, correctAnswers, specialCases),
                      mid, n, resps, correctAnswers, specialCases)

\* The percentages computed after the loop.
WithPercentages(results) ==
    [results EXCEPT
        !.percentage = Percent(results.totalScore, TotalQuestions),
        !.subjectScores =
            [s \in DOMAIN results.subjectScores |->
                [results.subjectScores[s] EXCEPT
                    !.percentage = Percent(results.subjectScores[s].correct,
                                           results.subjectScores[s].total)]]]

\* Mutant: the default for a missing answer is written back into the array
\* (responses[i] = responses[i] || "").
EvaluateResponsesNormalising(resps, keys) ==
    [responses |-> [k \in 1..Len(resps) |->
                        IF Falsy(resps[k]) THEN Str(<<>>) ELSE resps[k]],
     answerKeys |-> keys]

\* What a call leaves in the objects it works on: the function reads
\* responses[i], answerKey.rawAnswers and answerKey.specialCases and assigns to
\* none of them; what it writes is the results object it creates.
EvaluateResponsesEffects(resps, keys) == [responses |-> resps, answerKeys |-> keys]

evaluateResponses(resps, set) ==
    LET key == KeyForSet(set)
        looped == EvalLoop([threw |-> FALSE, value |-> NewResults], 0,
                           LoopBound(resps), resps, key.rawAnswers, key.specialCases)
    IN  IF looped.threw THEN looped
        ELSE [threw |-> FALSE, value |-> WithPercentages(looped.value)]

(***************************************************************************)
(* evaluateAnswers (Express server)                                        *)
(*                                                                         *)
(* exam.subjects is undefined (an exam created by POST /api/exams has no   *)
(* subjects) or an object whose entries, in insertion order, are records   *)
(* [name, start, end, count].                                              *)
(***************************************************************************)
NoSubjects == [kind |-> "undefined", entries |-> <<>>]

SubjectsObject(entries) == [kind |-> "object", entries |-> entries]

\* The first subject, in insertion order, whose range holds the question.
RECURSIVE SubjectOf(_, _)
SubjectOf(entries, questionNum) ==
    IF entries = <<>> THEN "Unknown"
    ELSE IF questionNum >= Head(entries).start /\ questionNum <= Head(entries).end
    THEN Head(entries).name
    ELSE SubjectOf(Tail(entries), questionNum)

\* subjectScores as initialised from exam.subjects.
InitialSubjectScores(entries) ==
    [s \in {entries[k].name : k \in 1..Len(entries)} |->
        [correct |-> 0,
         total |-> (CHOOSE e \in {entries[k] : k \in 1..Len(entries)} : e.name = s).count,
         percentage |-> Percent(0, 1),
         questions |-> <<>>]]

\* detected.detectedAnswer.toLowerCase() === answerKey[index].toLowerCase()
AnswerMatches(detectedAnswer, keyEntry) ==
    toLowerCase(detectedAnswer.chars) = toLowerCase(keyEntry.chars)

\* toLowerCase of a value that is not a string is a TypeError.
MatchThrows(detectedAnswer, keyEntry) ==
    detectedAnswer.kind # "string" \/ keyEntry.kind # "string"

\* The callback of detectedAnswers.map for one entry: the counters it updates
\* and the evaluation record it returns.
EvalDetected(acc, detected, index, key, entries) ==
    LET keyEntry == ArrayGet(key, index)
        isCorrect == AnswerMatches(detected.detectedAnswer, keyEntry)
        questionNum == detected.questionNumber
        subject == SubjectOf(entries, questionNum)
        counted == IF isCorrect THEN [acc EXCEPT !.correctAnswers = @ + 1] ELSE acc
        scored ==
            IF subject # "Unknown"
            THEN [counted EXCEPT
                    !.subjectScores[subject].questions =
                        Append(@, [questionNumber |-> questionNum,
                                   isCorrect |-> isCorrect,
                                   studentAnswer |-> detected.detectedAnswer,
                                   correctAnswer |-> keyEntry]),
                    !.subjectScores[subject].correct =
                        IF isCorrect THEN @ + 1 ELSE @]
            ELSE counted
    IN  [scored EXCEPT
            !.evaluation =
                Append(@, [questionNumber |-> questionNum,
                           subject |-> subject,
                           studentAnswer |-> detected.detectedAnswer,
                           correctAnswer |-> keyEntry,
                           isCorrect |-> isCorrect,
                           confidence |-> detected.confidence])]

\* detectedAnswers.map(...), entries index .. length - 1.
RECURSIVE MapDetected(_, _, _, _, _)
MapDetected(acc, index, detected, key, entries) ==
    IF index >= Len(detected) THEN [threw |-> FALSE, value |-> acc]
    ELSE IF MatchThrows(detected[index + 1].detectedAnswer, ArrayGet(key, index))
    THEN [threw |-> TRUE, value |-> TypeError]
    ELSE MapDetected(EvalDetected(acc, detected[index + 1], index, key, entries),
                     index + 1, detected, key, entries)

\* What a call leaves in its arguments: the function reads detectedAnswers,
\* answerKey and exam.subjects and assigns to none of them; what it writes is
\* the subjectScores object it creates.
EvaluateAnswersEffects(detected, key, ex) ==
    [detectedAnswers |-> detected, answerKey |-> key, exam |-> ex]

evaluateAnswers(detected, key, ex) ==
    IF ex.subjects.kind # "object"
    THEN [threw |-> TRUE, value |-> TypeError]
    ELSE
    LET entries == ex.subjects.entries
        mapped == MapDetected([correctAnswers |-> 0,
                               subjectScores |-> InitialSubjectScores(entries),
                               evaluation |-> <<>>],
                              0, detected, key, entries)
    IN  IF mapped.threw THEN mapped
        ELSE [threw |-> FALSE,
              value |->
                [score |-> mapped.value.correctAnswers,
                 percentage |-> Percent(mapped.value.correctAnswers, Len(key)),
                 totalQuestions |-> Len(key),
                 correctAnswers |-> mapped.value.correctAnswers,
                 subjectScores |->
                    [s \in DOMAIN mapped.value.subjectScores |->
                        [mapped.value.subjectScores[s] EXCEPT
                            !.percentage = Percent(mapped.value.subjectScores[s].correct,
                                                   mapped.value.subjectScores[s].total)]],
                 evaluation |-> mapped.value.evaluation]]

(***************************************************************************)
(* Inputs                                                                  *)
(***************************************************************************)
\* How many entries a response array may lack, or have beyond the 100 questions.
MaxMissing == 1

MaxExtra == 1

\* The largest answer key given to evaluateAnswers.
MaxQ == 2

\* How many evaluations one warm function instance serves.
MaxCalls == 3

ExamSets == {"setA", "setB", "setC"}

\* What a detector may report for one question.
Tokens ==
    {Str(<<>>), Str(<<" ">>), Str(<<"a">>), Str(<<"A">>), Str(<<"b">>), Str(<<"B">>),
     Str(<<"c">>), Str(<<"C">>), Str(<<"d">>), Str(<<"D">>), Str(<<"e">>),
     Str(<<"a", "b">>), Str(<<" ", "b", " ">>), Null, Undefined}

MixedTokens ==
    << Str(<<"a">>), Str(<<"B">>), Str(<<>>), Str(<<"c">>), Str(<<"D">>),
       Str(<<" ">>), Str(<<"e">>), Str(<<"b">>), Null, Str(<<"A">>), Str(<<"d">>) >>

Bases == {"key", "KEY", "mixed"}

\* A sheet of n entries: the set's key as detected (in either letter case), or a
\* sheet mixing every kind of entry.
BaseResponses(base, set, n) ==
    [i \in 1..n |->
        CASE base = "key" ->
                IF i <= TotalQuestions THEN KeyForSet(set).rawAnswers[i] ELSE Str(<<"a">>)
          [] base = "KEY" ->
                IF i <= TotalQuestions
                THEN Str(toUpperCase(KeyForSet(set).rawAnswers[i].chars))
                ELSE Str(<<"A">>)
          [] OTHER -> MixedTokens[((i - 1) % Len(MixedTokens)) + 1]]

Lengths == {0} \cup ((TotalQuestions - MaxMissing)..(TotalQuestions + MaxExtra))

\* The questions where the scoring changes: the special cases, the ends of the
\* subjects, and the entries around the end of the sheet.
EditPositions ==
    {1, 16, 20, 21, 59, 60}
        \cup ((TotalQuestions - MaxMissing)..(TotalQuestions + MaxExtra))

KeyTokens == {Str(<<"A">>), Str(<<"b">>)}

DetectedTokens == {Str(<<"A">>), Str(<<"a">>), Str(<<"B">>)}

AnswerKeyInputs == UNION {[1..n -> KeyTokens] : n \in 0..MaxQ}

\* Bubbles as detectOMRBubbles numbers them: entry index + 1.
DetectedInputs ==
    UNION {{[i \in 1..n |-> [questionNumber |-> i,
                             detectedAnswer |-> f[i],
                             confidence |-> "0.9"]] : f \in [1..n -> DetectedTokens]}
           : n \in 0..(MaxQ + 1)}

Segment(name, first, last) ==
    [name |-> name, start |-> first, end |-> last, count |-> last - first + 1]

Ranges == {r \in (1..MaxQ) \X (1..MaxQ) : r[1] <= r[2]}

\* A subject the exam lists without questions: { start, end: start - 1, count: 0 }.
EmptySegment(name, first) ==
    [name |-> name, start |-> first, end |-> first - 1, count |-> 0]

SubjectInputs ==
    {NoSubjects, SubjectsObject(<<>>), SubjectsObject(<<EmptySegment("S1", 1)>>)}
        \cup {SubjectsObject(<<Segment("S1", r[1], r[2])>>) : r \in Ranges}
        \cup {SubjectsObject(<<Segment("S1", r[1], r[2]), EmptySegment("S2", r[2] + 1)>>)
              : r \in Ranges}
        \cup {SubjectsObject(<<Segment("S1", r[1], r[2]), Segment("S2", q[1], q[2])>>)
              : r \in Ranges, q \in Ranges}

Pending == [threw |-> FALSE, value |-> [pending |-> TRUE]]

\* The server's variables where no server runs.
ServerNotStarted ==
    /\ exams = <<>>
    /\ clock = 0
    /\ response = 0
    /\ processingJobs = <<>>
    /\ storedResults = <<>>
    /\ tasks = <<>>
    /\ spawned = <<>>

\* An empty database and the AppContext state before anything is loaded.
AppNotStarted ==
    /\ supabase = [exams |-> <<>>, omr_results |-> <<>>]
    /\ appContext = [exams |-> <<>>, results |-> <<>>]
    /\ admin = [newExam |-> [name |-> "", subject |-> "", totalQuestions |-> 50,
                             status |-> "draft"],
                createMethod |-> "manual",
                answerKeyData |-> <<>>,
                toast |-> ""]

\* The Upload page before anything is selected.
ClientNotStarted ==
    /\ selectedExam = ""
    /\ uploadedFiles = <<>>
    /\ jobs = <<>>
    /\ processingResults = <<>>
    /\ loop = [at |-> "idle"]
    /\ saved = <<>>
    /\ notified = <<>>
    /\ displayed = <<>>
    /\ intervals = {}
    /\ AppNotStarted

(***************************************************************************)
(* One evaluation: the input is fixed in the initial state.                *)
(***************************************************************************)
InitResponses ==
    /\ fn = "evaluateResponses"
    /\ examSet \in ExamSets
    /\ \E base \in Bases, n \in Lengths :
          \/ responses = BaseResponses(base, examSet, n)
          \/ \E p \in EditPositions \cap (1..n), t \in Tokens :
                responses = [BaseResponses(base, examSet, n) EXCEPT ![p] = t]
    /\ detectedAnswers = <<>>
    /\ answerKey = <<>>
    /\ exam = [subjects |-> NoSubjects]

InitAnswers ==
    /\ fn = "evaluateAnswers"
    /\ detectedAnswers \in DetectedInputs
    /\ answerKey \in AnswerKeyInputs
    /\ exam \in {[subjects |-> sub] : sub \in SubjectInputs}
    /\ responses = <<>>
    /\ examSet = "setA"

Init ==
    /\ pc = "ready"
    /\ answerKeys = MockAnswerKeys
    /\ result = Pending
    /\ arg = 0
    /\ calls = <<>>
    /\ ServerNotStarted
    /\ ClientNotStarted
    /\ (InitResponses \/ InitAnswers)

CallEvaluateResponses ==
    /\ pc = "ready"
    /\ fn = "evaluateResponses"
    /\ result' = evaluateResponses(responses, examSet)
    /\ responses' = EvaluateResponsesEffects(responses, answerKeys).responses
    /\ answerKeys' = EvaluateResponsesEffects(responses, answerKeys).answerKeys
    /\ pc' = "done"
    /\ UNCHANGED <<fn, examSet, detectedAnswers, answerKey, exam, calls, serverVars, clientVars, arg>>

CallEvaluateAnswers ==
    /\ pc = "ready"
    /\ fn = "evaluateAnswers"
    /\ result' = evaluateAnswers(detectedAnswers, answerKey, exam)
    /\ detectedAnswers'
          = EvaluateAnswersEffects(detectedAnswers, answerKey, exam).detectedAnswers
    /\ answerKey' = EvaluateAnswersEffects(detectedAnswers, answerKey, exam).answerKey
    /\ exam' = EvaluateAnswersEffects(detectedAnswers, answerKey, exam).exam
    /\ pc' = "done"
    /\ UNCHANGED <<fn, answerKeys, responses, examSet, calls, serverVars, clientVars, arg>>

Next == CallEvaluateResponses \/ CallEvaluateAnswers

Spec == Init /\ [][Next]_vars

(***************************************************************************)
(* A warm instance of the processing function serving several requests:    *)
(* each request evaluates one sheet, and the module's state lives on.      *)
(***************************************************************************)
CallInputs ==
    {[responses |-> BaseResponses(base, set, n), examSet |-> set]
        : base \in {"key", "mixed"}, set \in {"setA", "setB"},
          n \in {TotalQuestions - MaxMissing, TotalQuestions}}

InitCalls ==
    /\ pc = "serving"
    /\ answerKeys = MockAnswerKeys
    /\ fn = "evaluateResponses"
    /\ responses = <<>>
    /\ examSet = "setA"
    /\ detectedAnswers = <<>>
    /\ answerKey = <<>>
    /\ exam = [subjects |-> NoSubjects]
    /\ result = Pending
    /\ arg = 0
    /\ calls = <<>>
    /\ ServerNotStarted
    /\ ClientNotStarted

HandleRequest ==
    /\ pc = "serving"
    /\ Len(calls) < MaxCalls
    /\ \E in \in CallInputs :
          /\ responses' = EvaluateResponsesEffects(in.responses, answerKeys).responses
          /\ answerKeys' = EvaluateResponsesEffects(in.responses, answerKeys).answerKeys
          /\ examSet' = in.examSet
          /\ result' = evaluateResponses(in.responses, in.examSet)
          /\ calls' = Append(calls, [responses |-> in.responses,
                                     examSet |-> in.examSet,
                                     result |-> result'])
    /\ UNCHANGED <<pc, fn, detectedAnswers, answerKey, exam, serverVars, clientVars, arg>>

NextCalls == HandleRequest

SpecCalls == InitCalls /\ [][NextCalls]_vars

(***************************************************************************)
(* One evaluation under an answer-key configuration other than the mock    *)
(* one ("in production, load from external source"): the built-in keys     *)
(* with one more special case, whose question lies outside 1..100.         *)
(***************************************************************************)
\* The question numbers next to the range of the loop, 1..100.
OutOfRangeQuestions == {0} \cup ((TotalQuestions + 1)..(TotalQuestions + MaxExtra))

\* keys with the entry specialCases[q.toString()] = { acceptedAnswers } in set.
WithSpecialCase(keys, set, q, acceptedAnswers) ==
    [keys EXCEPT ![set].specialCases =
        (NumberToString(q) :> [acceptedAnswers |-> acceptedAnswers]) @@ @]

ConfigInputs ==
    {MockAnswerKeys}
        \cup {WithSpecialCase(MockAnswerKeys, set, q, << <<"a">>, <<"b">> >>)
              : set \in {"setA", "setB"}, q \in OutOfRangeQuestions}

InitConfig ==
    /\ pc = "ready"
    /\ fn = "evaluateResponses"
    /\ answerKeys \in ConfigInputs
    /\ examSet \in {"setA", "setB"}
    /\ \E base \in Bases, n \in Lengths : responses = BaseResponses(base, examSet, n)
    /\ detectedAnswers = <<>>
    /\ answerKey = <<>>
    /\ exam = [subjects |-> NoSubjects]
    /\ result = Pending
    /\ arg = 0
    /\ calls = <<>>
    /\ ServerNotStarted
    /\ ClientNotStarted

NextConfig == CallEvaluateResponses

SpecConfig == InitConfig /\ [][NextConfig]_vars

(***************************************************************************)
(* The Express server: the exams array and the exam endpoints.             *)
(*                                                                         *)
(* An exam is a record [id, name, subject, totalQuestions, answerKey,      *)
(* subjects, status]; subjects is undefined for an exam made by POST       *)
(* /api/exams.  Date.now() is the clock, which moves on between requests   *)
(* or stays within the same millisecond.                                   *)
(***************************************************************************)
\* How many exams POST /api/exams may add to the built-in one.
MaxExams == 1

\* The largest totalQuestions and answer key a request carries.
MaxExamQ == 1

\* The last millisecond of the clock.
MaxClock == 3

\* String.fromCharCode(65 + (i % 4))
FallbackLetter(i) ==
    CASE i % 4 = 0 -> "A" [] i % 4 = 1 -> "B" [] i % 4 = 2 -> "C" [] OTHER -> "D"

\* What may be found at answer_keys.json: no readable file, JSON without a
\* setA entry, or a file whose setA.rawAnswers is the key of set A.
AnswerKeysFiles ==
    {[readable |-> FALSE, sets |-> {}, rawAnswers |-> <<>>],
     [readable |-> TRUE, sets |-> {}, rawAnswers |-> <<>>],
     [readable |-> TRUE, sets |-> {"setA"}, rawAnswers |-> RawAnswers(SetALetters)]}

\* loadAnswerKeys: the file's setA.rawAnswers, or, when reading it throws, the
\* key A, B, C, D, A, ... of 100 entries.
loadAnswerKeys(file) ==
    IF file.readable /\ "setA" \in file.sets
    THEN file.rawAnswers
    ELSE [k \in 1..100 |-> Str(<<FallbackLetter(k - 1)>>)]

\* The exam the server starts with.
BuiltInExam(file) ==
    [id |-> <<"1">>,
     name |-> "Innomatics Placement Assessment - Set A",
     subject |-> "Data Science & AI/ML",
     totalQuestions |-> 100,
     answerKey |-> loadAnswerKeys(file),
     subjects |-> SubjectsObject(<<Segment("Python", 1, 20), Segment("EDA", 21, 40),
                                   Segment("SQL", 41, 60), Segment("PowerBI", 61, 80),
                                   Segment("Statistics", 81, 100)>>),
     status |-> "active"]

\* arr.findIndex(e => e.id === id): a 0-based index, or -1.
RECURSIVE FindIndexFrom(_, _, _)
FindIndexFrom(arr, id, i) ==
    IF i >= Len(arr) THEN -1
    ELSE IF arr[i + 1].id = id THEN i
    ELSE FindIndexFrom(arr, id, i + 1)

FindIndexById(arr, id) == FindIndexFrom(arr, id, 0)

\* arr.splice(index, 1)
Splice(arr, index) ==
    [k \in 1..(Len(arr) - 1) |-> IF k <= index THEN arr[k] ELSE arr[k + 1]]

\* { ...target, ...body } for a body whose fields are fields of the target.
Merge(target, body) ==
    [f \in DOMAIN target |-> IF f \in DOMAIN body THEN body[f] ELSE target[f]]

ExamStatuses == {"draft", "active", "completed"}

\* The ids a request may name: the built-in exam's and those of the clock.
ExamIdInputs == {NumberToString(n) : n \in 1..MaxClock}

\* The answer keys a request may carry.
ExamKeyInputs == UNION {[1..n -> {Str(<<"B">>)}] : n \in 0..MaxExamQ}

\* The bodies of POST /api/exams: status may be left out, name may be empty and
\* totalQuestions may be 0.
PostExamBodies ==
    {[name |-> n, subject |-> "Subject", totalQuestions |-> t]
        : n \in {"", "Exam"}, t \in 0..MaxExamQ}
    \cup {[name |-> "Exam", subject |-> "Subject", totalQuestions |-> t, status |-> s]
          : t \in 1..MaxExamQ, s \in ExamStatuses}

\* The bodies of PUT /api/exams/:id: any fields of an exam.
PutExamBodies ==
    {<<>>}
    \cup {[status |-> s] : s \in ExamStatuses}
    \cup {[answerKey |-> k] : k \in ExamKeyInputs}
    \cup {[totalQuestions |-> t] : t \in 1..MaxExamQ}
    \cup {[status |-> s, answerKey |-> k] : s \in ExamStatuses, k \in ExamKeyInputs}

\* The answerKey of the body of PUT /api/exams/:id/answerkey: an array, a
\* string, or nothing.
AnswerKeyBodies ==
    {[isArray |-> TRUE, value |-> k] : k \in ExamKeyInputs}
    \cup {[isArray |-> FALSE, value |-> <<Str(<<"B">>)>>],
          [isArray |-> FALSE, value |-> <<>>]}

InitServer ==
    /\ pc = "listening"
    /\ \E file \in AnswerKeysFiles : exams = <<BuiltInExam(file)>>
    /\ clock = 2
    /\ response = 0
    /\ processingJobs = <<>>
    /\ storedResults = <<>>
    /\ tasks = <<>>
    /\ spawned = <<>>
    /\ ClientNotStarted
    /\ fn = "server"
    /\ answerKeys = MockAnswerKeys
    /\ responses = <<>>
    /\ examSet = "setA"
    /\ detectedAnswers = <<>>
    /\ answerKey = <<>>
    /\ exam = [subjects |-> NoSubjects]
    /\ result = Pending
    /\ arg = 0
    /\ calls = <<>>

evalVars == <<pc, fn, answerKeys, responses, examSet, detectedAnswers, answerKey, exam,
              result, calls, arg>>

\* POST /api/exams
PostExam ==
    /\ pc = "listening"
    /\ \E body \in PostExamBodies, now \in clock..MaxClock :
          /\ clock' = now
          /\ IF body.name = "" \/ body.subject = "" \/ body.totalQuestions = 0
             THEN /\ response' = 400
                  /\ UNCHANGED exams
             ELSE /\ Len(exams) <= MaxExams
                  /\ exams' = Append(exams,
                        [id |-> NumberToString(now),
                         name |-> body.name,
                         subject |-> body.subject,
                         totalQuestions |-> body.totalQuestions,
                         answerKey |-> [k \in 1..body.totalQuestions |-> Str(<<"A">>)],
                         subjects |-> NoSubjects,
                         status |-> IF "status" \in DOMAIN body
                                    THEN body.status ELSE "draft"])
                  /\ response' = 201
    /\ UNCHANGED <<evalVars, jobVars, clientVars>>

\* PUT /api/exams/:id
PutExam ==
    /\ pc = "listening"
    /\ \E id \in ExamIdInputs, body \in PutExamBodies :
          LET examIndex == FindIndexById(exams, id)
          IN  IF examIndex = -1
              THEN /\ response' = 404
                   /\ UNCHANGED exams
              ELSE /\ exams' = [exams EXCEPT ![examIndex + 1] = Merge(@, body)]
                   /\ response' = 200
    /\ UNCHANGED <<evalVars, clock, jobVars, clientVars>>

\* DELETE /api/exams/:id
DeleteExam ==
    /\ pc = "listening"
    /\ \E id \in ExamIdInputs :
          LET examIndex == FindIndexById(exams, id)
          IN  IF examIndex = -1
              THEN /\ response' = 404
                   /\ UNCHANGED exams
              ELSE /\ exams' = Splice(exams, examIndex)
                   /\ response' = 200
    /\ UNCHANGED <<evalVars, clock, jobVars, clientVars>>

\* PUT /api/exams/:id/answerkey
PutAnswerKey ==
    /\ pc = "listening"
    /\ \E id \in ExamIdInputs, body \in AnswerKeyBodies :
          LET examIndex == FindIndexById(exams, id)
          IN  IF examIndex = -1
              THEN /\ response' = 404
                   /\ UNCHANGED exams
              ELSE IF ~body.isArray
              THEN /\ response' = 400
                   /\ UNCHANGED exams
              ELSE /\ exams' = [exams EXCEPT ![examIndex + 1].answerKey = body.value]
                   /\ response' = 200
    /\ UNCHANGED <<evalVars, clock, jobVars, clientVars>>

NextServer == PostExam \/ PutExam \/ DeleteExam \/ PutAnswerKey

SpecServer == InitServer /\ [][NextServer]_vars

(***************************************************************************)
(* The subject maps: getSubjectForQuestion of the processing function and  *)
(* of the server, and ExamService.generateSubjectMapping, each called with *)
(* one number.                                                             *)
(***************************************************************************)
\* Mutant: the upper ends of the subjects are excluded (questionNum < 20, ...).
getSubjectForQuestionExclusive(questionNum) ==
    IF questionNum >= 1 /\ questionNum < 20 THEN "Python"
    ELSE IF questionNum >= 21 /\ questionNum < 40 THEN "EDA"
    ELSE IF questionNum >= 41 /\ questionNum < 60 THEN "SQL"
    ELSE IF questionNum >= 61 /\ questionNum < 80 THEN "PowerBI"
    ELSE IF questionNum >= 81 /\ questionNum < 100 THEN "Statistics"
    ELSE "Unknown"

\* getSubjectForQuestion of the server.
getSubjectForQuestionOfServer(questionNum) ==
    IF questionNum >= 1 /\ questionNum <= 20 THEN "Python"
    ELSE IF questionNum >= 21 /\ questionNum <= 40 THEN "EDA"
    ELSE IF questionNum >= 41 /\ questionNum <= 60 THEN "SQL"
    ELSE IF questionNum >= 61 /\ questionNum <= 80 THEN "PowerBI"
    ELSE IF questionNum >= 81 /\ questionNum <= 100 THEN "Statistics"
    ELSE "Unknown"

\* Array.from({ length }, (_, i) => i + first)
ArrayFrom(length, first) == [k \in 1..length |-> (k - 1) + first]

generateSubjectMapping(total) ==
    IF total = 100
    THEN ("Python" :> ArrayFrom(20, 1)) @@ ("EDA" :> ArrayFrom(20, 21))
            @@ ("SQL" :> ArrayFrom(20, 41)) @@ ("Power BI" :> ArrayFrom(20, 61))
            @@ ("Statistics" :> ArrayFrom(20, 81))
    ELSE ("General" :> ArrayFrom(total, 1))

SubjectMapFunctions ==
    {"getSubjectForQuestion", "getSubjectForQuestionOfServer", "generateSubjectMapping"}

InitSubjectMap ==
    /\ pc = "ready"
    /\ fn \in SubjectMapFunctions
    /\ arg \in 0..(TotalQuestions + MaxExtra)
    /\ result = Pending
    /\ answerKeys = MockAnswerKeys
    /\ responses = <<>>
    /\ examSet = "setA"
    /\ detectedAnswers = <<>>
    /\ answerKey = <<>>
    /\ exam = [subjects |-> NoSubjects]
    /\ calls = <<>>
    /\ ServerNotStarted
    /\ ClientNotStarted

CallGetSubjectForQuestion ==
    /\ pc = "ready"
    /\ fn \in {"getSubjectForQuestion", "getSubjectForQuestionOfServer"}
    /\ result' = [threw |-> FALSE,
                  value |-> IF fn = "getSubjectForQuestion"
                            THEN getSubjectForQuestion(arg)
                            ELSE getSubjectForQuestionOfServer(arg)]
    /\ pc' = "done"
    /\ UNCHANGED <<fn, answerKeys, responses, examSet, detectedAnswers, answerKey, exam,
                   calls, serverVars, clientVars, arg>>

CallGenerateSubjectMapping ==
    /\ pc = "ready"
    /\ fn = "generateSubjectMapping"
    /\ result' = [threw |-> FALSE, value |-> generateSubjectMapping(arg)]
    /\ pc' = "done"
    /\ UNCHANGED <<fn, answerKeys, responses, examSet, detectedAnswers, answerKey, exam,
                   calls, serverVars, clientVars, arg>>

NextSubjectMap == CallGetSubjectForQuestion \/ CallGenerateSubjectMapping

SpecSubjectMap == InitSubjectMap /\ [][NextSubjectMap]_vars

(***************************************************************************)
(* Processing on the server: POST /api/process creates one job per file and *)
(* starts processOMRFile for each; a processOMRFile call runs up to its     *)
(* first await within the request and continues when preprocessImage and    *)
(* then detectOMRBubbles settle, in any order among the calls.              *)
(***************************************************************************)
\* How many files one request or one batch carries.
MaxFiles == 2

\* How many jobs processingJobs holds.
MaxJobs == 2

\* Math.random().toString(36).substr(2, 5)
RandomSuffixes == {<<"k", "3", "x", "9", "q">>, <<"p", "0", "7", "z", "d">>}

\* The exam POST /api/exams adds for { name, subject, totalQuestions: 1 } at
\* millisecond 2.
CreatedExam ==
    [id |-> NumberToString(2),
     name |-> "Exam",
     subject |-> "Subject",
     totalQuestions |-> 1,
     answerKey |-> [k \in 1..1 |-> Str(<<"A">>)],
     subjects |-> NoSubjects,
     status |-> "draft"]

\* The files of a request body, as /api/upload reported them.
FilesOfRequest(n) ==
    [k \in 1..n |-> [originalname |-> <<"sheet", k>>, path |-> <<"uploads", k>>]]

\* The bodies of POST /api/process: examId or files may be missing, and the
\* exam may be unknown.
ProcessBodies ==
    {[examId |-> id, hasFiles |-> TRUE, files |-> FilesOfRequest(n)]
        : id \in {<<>>} \cup {NumberToString(k) : k \in 1..3}, n \in 0..MaxFiles}
    \cup {[examId |-> NumberToString(1), hasFiles |-> FALSE, files |-> <<>>]}

\* What the OMR script is started with, and the exam whose sheet it is given.
Spawn(script, set, method, id, key, setOfExam) ==
    [script |-> script, examSet |-> set, method |-> method,
     sheetOf |-> [id |-> id, answerKey |-> key, examSet |-> setOfExam]]

\* The exam objects of the server carry no exam set.
NoExamSet == "undefined"

\* processOMRFile up to its first await, for the jobs of one request in order:
\* the entry found by the job's id becomes 'processing' at progress 10.
RECURSIVE StartJobs(_, _, _)
StartJobs(list, newJobs, k) ==
    IF k > Len(newJobs) THEN list
    ELSE LET jobIndex == FindIndexById(list, newJobs[k].id)
         IN  StartJobs(IF jobIndex = -1 THEN list
                       ELSE [list EXCEPT ![jobIndex + 1].status = "processing",
                                         ![jobIndex + 1].progress = 10],
                       newJobs, k + 1)

\* The calls of processOMRFile that reached await preprocessImage. Each call is
\* recorded with the place of its own job in processingJobs (entry) and with
\* the number of its awaits that have resolved.
NewTasks(list, newJobs, ex) ==
    LET started == {k \in 1..Len(newJobs) : FindIndexById(list, newJobs[k].id) # -1}
    IN  [k \in 1..Len(newJobs) |->
            [job |-> newJobs[k],
             exam |-> ex,
             jobIndex |-> FindIndexById(list, newJobs[k].id),
             entry |-> (Len(list) - Len(newJobs)) + k,
             resolved |-> 0,
             at |-> IF k \in started THEN "preprocessImage" ELSE "returned"]]

\* POST /api/process
PostProcess ==
    /\ pc = "listening"
    /\ \E body \in ProcessBodies, now \in clock..MaxClock :
          /\ clock' = now
          /\ IF body.examId = <<>> \/ ~body.hasFiles
             THEN /\ response' = 400
                  /\ UNCHANGED <<processingJobs, tasks>>
             ELSE LET examIndex == FindIndexById(exams, body.examId)
                  IN  IF examIndex = -1
                      THEN /\ response' = 404
                           /\ UNCHANGED <<processingJobs, tasks>>
                      ELSE /\ Len(processingJobs) + Len(body.files) <= MaxJobs
                           /\ \E suffix \in [1..Len(body.files) -> RandomSuffixes] :
                                LET newJobs ==
                                        [k \in 1..Len(body.files) |->
                                            [id |-> NumberToString(now) \o suffix[k],
                                             examId |-> body.examId,
                                             fileName |-> body.files[k].originalname,
                                             filePath |-> body.files[k].path,
                                             status |-> "pending",
                                             progress |-> 0,
                                             startTime |-> now]]
                                    pushed == processingJobs \o newJobs
                                IN  /\ processingJobs' = StartJobs(pushed, newJobs, 1)
                                    /\ tasks' = tasks \o NewTasks(pushed, newJobs,
                                                                  exams[examIndex + 1])
                           /\ response' = 200
    /\ UNCHANGED <<evalVars, exams, storedResults, spawned, clientVars>>

\* The catch block of processOMRFile.
MarkFailed(list, job, message, now) ==
    LET jobIndex == FindIndexById(list, job.id)
    IN  IF jobIndex = -1 THEN list
        ELSE [list EXCEPT ![jobIndex + 1] =
                    [f \in DOMAIN @ \cup {"error", "endTime"} |->
                        CASE f = "status" -> "failed"
                          [] f = "error" -> message
                          [] f = "endTime" -> now
                          [] OTHER -> @[f]]]

\* await preprocessImage(job.filePath) settles: on success progress becomes 30
\* and detectOMRBubbles(processedImagePath, 'setA') starts the script.
PreprocessSettles ==
    /\ pc = "listening"
    /\ \E t \in 1..Len(tasks), ok \in BOOLEAN, now \in clock..MaxClock :
          /\ tasks[t].at = "preprocessImage"
          /\ clock' = now
          /\ IF ok
             THEN /\ processingJobs' =
                        [processingJobs EXCEPT ![tasks[t].jobIndex + 1].progress = 30]
                  /\ spawned' = Append(spawned,
                        Spawn("omr_api_service.py", "setA", "perfect",
                              tasks[t].exam.id, tasks[t].exam.answerKey, NoExamSet))
                  /\ tasks' = [tasks EXCEPT ![t].at = "detectOMRBubbles",
                                            ![t].resolved = 1]
             ELSE /\ processingJobs' = MarkFailed(processingJobs, tasks[t].job,
                                                  "Image preprocessing failed", now)
                  /\ tasks' = [tasks EXCEPT ![t].at = "returned"]
                  /\ UNCHANGED spawned
    /\ UNCHANGED <<evalVars, exams, response, storedResults, clientVars>>

\* The result object processOMRFile builds from omrResults: the literal reads
\* req.file.originalname, and no req is in scope of processOMRFile.
BuildResult(omrResults, job, ex, count) ==
    [threw |-> TRUE, value |-> "req is not defined"]

\* await detectOMRBubbles settles: on success progress becomes 90, the result
\* is built and pushed and the job is completed; whatever throws is caught.
DetectSettles ==
    /\ pc = "listening"
    /\ \E t \in 1..Len(tasks), ok \in BOOLEAN, now \in clock..MaxClock :
          /\ tasks[t].at = "detectOMRBubbles"
          /\ clock' = now
          /\ tasks' = [tasks EXCEPT ![t].at = "returned",
                                    ![t].resolved = IF ok THEN 2 ELSE @]
          /\ IF ok
             THEN LET at90 == [processingJobs EXCEPT
                                  ![tasks[t].jobIndex + 1].progress = 90]
                      built == BuildResult([success |-> TRUE], tasks[t].job,
                                           tasks[t].exam, Len(storedResults))
                  IN  IF built.threw
                      THEN /\ processingJobs' =
                                 MarkFailed(at90, tasks[t].job, built.value, now)
                           /\ UNCHANGED storedResults
                      ELSE /\ storedResults' = Append(storedResults, built.value)
                           /\ processingJobs' =
                                 [at90 EXCEPT ![tasks[t].jobIndex + 1] =
                                    [f \in DOMAIN @ \cup {"endTime"} |->
                                        CASE f = "status" -> "completed"
                                          [] f = "progress" -> 100
                                          [] f = "endTime" -> now
                                          [] OTHER -> @[f]]]
             ELSE /\ processingJobs' = MarkFailed(processingJobs, tasks[t].job,
                                                  "OMR processing failed", now)
                  /\ UNCHANGED storedResults
    /\ UNCHANGED <<evalVars, exams, response, spawned, clientVars>>

(***************************************************************************)
(* Processing in the browser: the Upload page shows a RealTimeProcessor for *)
(* the selected exam and files; startProcessing uploads the files, then     *)
(* posts them one by one to /api/omr/process-direct, whose handler starts   *)
(* the OMR script, and hands the collected results to the page.             *)
(***************************************************************************)
SeedSetALetters == <<
    "A","B","C","D","A","B","C","D","A","B","C","D","A","B","C","A","B","C","D","A",
    "B","C","D","A","B","C","D","A","B","C","D","A","B","C","D","A","B","C","D","A",
    "C","D","A","B","C","D","A","B","C","D","A","B","C","D","A","B","C","D","A","B",
    "D","A","B","C","D","A","B","C","D","A","B","C","D","A","B","C","D","A","B","C",
    "A","B","C","D","A","B","C","D","A","B","C","D","A","B","C","D","A","B","C","D">>

SeedSetBLetters == <<
    "B","C","D","A","B","C","D","A","B","C","D","A","B","C","D","B","C","D","A","B",
    "C","D","A","B","C","D","A","B","C","D","A","B","C","D","A","B","C","D","A","B",
    "D","A","B","C","D","A","B","C","D","A","B","C","D","A","B","C","D","A","B","C",
    "A","B","C","D","A","B","C","D","A","B","C","D","A","B","C","D","A","B","C","D",
    "B","C","D","A","B","C","D","A","B","C","D","A","B","C","D","A","B","C","D","A">>

\* The rows of the exams table: the two seeded exams, and an exam added through
\* AppContext.addExam, which passes no exam_set, so the column takes its
\* default 'A'.
ExamRows ==
    {[id |-> "seed-a", answer_key |-> RawAnswers(SeedSetALetters), exam_set |-> "A"],
     [id |-> "seed-b", answer_key |-> RawAnswers(SeedSetBLetters), exam_set |-> "B"],
     [id |-> "added", answer_key |-> RawAnswers(<<"D">>), exam_set |-> "A"]}

RowOf(id) == CHOOSE row \in ExamRows : row.id = id

\* The exam set names of the OMR script: 'setA' for exam_set 'A'.
SetName(set) == "set" \o set

\* The File objects a batch may hold.
FilesOfBatch(n) == [k \in 1..n |-> [name |-> <<"sheet", k>>]]

\* Mutant: the job ids leave out the index of the file.
InitialJobsWithoutIndex(files, now) ==
    [k \in 1..Len(files) |->
        [id |-> <<"job", now>>,
         fileName |-> files[k].name,
         status |-> "pending",
         progress |-> 0,
         startTime |-> now]]

\* The effect that initialises the jobs from the files.
InitialJobs(files, now) ==
    [k \in 1..Len(files) |->
        [id |-> <<"job", now, k - 1>>,
         fileName |-> files[k].name,
         status |-> "pending",
         progress |-> 0,
         startTime |-> now]]

\* setJobs(prev => prev.map(job => job.id === jobId ? { ...job, ...fields } : job))
SetJob(list, jobId, fields) ==
    [k \in 1..Len(list) |->
        IF list[k].id = jobId
        THEN [f \in DOMAIN list[k] \cup DOMAIN fields |->
                IF f \in DOMAIN fields THEN fields[f] ELSE list[k][f]]
        ELSE list[k]]

\* Upload.handleProcessingComplete: addResult for every result with success,
\* with the file name found at the result's index.
HandleProcessingComplete(list, examId, files) ==
    LET ok == {k \in 1..Len(list) : list[k].success}
        nth(n) == CHOOSE k \in ok : Cardinality({j \in ok : j <= k}) = n
    IN  [n \in 1..Cardinality(ok) |->
            [examId |-> examId,
             studentName |-> nth(n),
             fileName |-> IF nth(n) <= Len(files)
                          THEN files[nth(n)].name
                          ELSE <<"OMR_Sheet", nth(n)>>,
             score |-> list[nth(n)].totalScore,
             sheet |-> list[nth(n)].sheet]]

\* Upload.handleStartProcessing; the processor it shows initialises its jobs.
HandleStartProcessing ==
    /\ pc = "page"
    /\ loop.at = "idle"
    /\ IF selectedExam = "" \/ Len(uploadedFiles) = 0
       THEN UNCHANGED <<jobs, loop, notified>>
       ELSE /\ jobs' = InitialJobs(uploadedFiles, clock)
            /\ loop' = [at |-> "mounted"]
            /\ notified' = <<>>
    /\ UNCHANGED <<evalVars, serverVars, uploaderVars, appVars, selectedExam, uploadedFiles,
                   processingResults, saved>>

\* startProcessing up to await apiService.uploadFiles(files, examId).
StartProcessing ==
    /\ pc = "page"
    /\ loop.at = "mounted"
    /\ Len(uploadedFiles) > 0 /\ Len(jobs) > 0
    /\ processingResults' = <<>>
    /\ loop' = [at |-> "uploadFiles"]
    /\ UNCHANGED <<evalVars, serverVars, uploaderVars, appVars, selectedExam, uploadedFiles, jobs, saved,
                   notified>>

\* startProcessing from the top of the for loop at index i, with the jobs
\* state js and the local array list: the next file with a job is posted
\* with exam set 'setA'; after the last file the results are handed over.
RECURSIVE Iterate(_, _, _)
Iterate(i, js, list) ==
    IF i >= Len(uploadedFiles)
    THEN /\ jobs' = js
         /\ processingResults' = list
         /\ notified' = Append(notified, [callback |-> "onComplete", results |-> list])
         /\ saved' = saved \o HandleProcessingComplete(list, selectedExam, uploadedFiles)
         /\ loop' = [at |-> "success"]
    ELSE IF i >= Len(jobs)
    THEN Iterate(i + 1, js, list)
    ELSE /\ jobs' = SetJob(js, jobs[i + 1].id, [status |-> "processing", progress |-> 10])
         /\ processingResults' = list
         /\ loop' = [at |-> "processImageDirect", i |-> i, examSet |-> "setA"]
         /\ UNCHANGED <<saved, notified>>

\* await apiService.uploadFiles settles.
UploadFilesSettles ==
    /\ pc = "page"
    /\ loop.at = "uploadFiles"
    /\ \E ok \in BOOLEAN :
          IF ok
          THEN Iterate(0, jobs, processingResults)
          ELSE /\ loop' = [at |-> "idle"]
               /\ notified' = Append(notified, [callback |-> "onError"])
               /\ UNCHANGED <<jobs, processingResults, saved>>
    /\ UNCHANGED <<evalVars, serverVars, uploaderVars, appVars, selectedExam, uploadedFiles>>

\* What becomes of one request to /api/omr/process-direct: it does not reach
\* the server, or the script is started and exits with an error, prints a
\* result without success, or prints a result.
DirectOutcomes == {"unreachable", "script failed", "no success", "success"}

\* await apiService.processImageDirect(file, 'setA') settles. The handler
\* starts the script with req.body.examSet || 'setA'.
ProcessImageDirectSettles ==
    /\ pc = "page"
    /\ loop.at = "processImageDirect"
    /\ \E outcome \in DirectOutcomes :
          LET jobId == jobs[loop.i + 1].id
              row == RowOf(selectedExam)
          IN  /\ IF outcome = "unreachable"
                 THEN UNCHANGED spawned
                 ELSE spawned' = Append(spawned,
                         Spawn("integrated_omr_service.py",
                               IF loop.examSet = "" THEN "setA" ELSE loop.examSet,
                               "fast", row.id, row.answer_key, SetName(row.exam_set)))
              /\ IF outcome \in {"unreachable", "script failed"}
                 THEN Iterate(loop.i + 1,
                              SetJob(jobs, jobId, [status |-> "failed", endTime |-> clock,
                                                   error |-> outcome]),
                              processingResults)
                 ELSE /\ jobs' = SetJob(jobs, jobId, [progress |-> 20])
                      /\ loop' = [at |-> "progress", i |-> loop.i, progress |-> 20,
                                  result |-> [success |-> outcome = "success",
                                              totalScore |-> 0,
                                              sheet |-> uploadedFiles[loop.i + 1].name]]
                      /\ UNCHANGED <<processingResults, saved, notified>>
    /\ UNCHANGED <<evalVars, exams, clock, response, processingJobs, storedResults,
                   tasks, uploaderVars, appVars, selectedExam, uploadedFiles>>

\* One 200 ms wait of the progress loop ends: the next of 40, 60, 80 is shown,
\* or the job is completed and its result pushed.
ProgressTick ==
    /\ pc = "page"
    /\ loop.at = "progress"
    /\ LET jobId == jobs[loop.i + 1].id
       IN  IF loop.progress + 20 <= 90
           THEN /\ jobs' = SetJob(jobs, jobId, [progress |-> loop.progress + 20])
                /\ loop' = [loop EXCEPT !.progress = @ + 20]
                /\ UNCHANGED <<processingResults, saved, notified>>
           ELSE Iterate(loop.i + 1,
                        SetJob(jobs, jobId, [status |-> "completed", progress |-> 100,
                                             endTime |-> clock, result |-> loop.result]),
                        Append(processingResults, loop.result))
    /\ UNCHANGED <<evalVars, serverVars, uploaderVars, appVars, selectedExam, uploadedFiles>>

(***************************************************************************)
(* The processing specification: either the server with its built-in exam  *)
(* and possibly one added exam, or the Upload page with a selection.       *)
(***************************************************************************)
InitProcess ==
    /\ answerKeys = MockAnswerKeys
    /\ responses = <<>>
    /\ examSet = "setA"
    /\ detectedAnswers = <<>>
    /\ answerKey = <<>>
    /\ exam = [subjects |-> NoSubjects]
    /\ result = Pending
    /\ arg = 0
    /\ calls = <<>>
    /\ clock = 2
    /\ response = 0
    /\ processingJobs = <<>>
    /\ storedResults = <<>>
    /\ tasks = <<>>
    /\ spawned = <<>>
    /\ jobs = <<>>
    /\ processingResults = <<>>
    /\ loop = [at |-> "idle"]
    /\ saved = <<>>
    /\ notified = <<>>
    /\ displayed = <<>>
    /\ intervals = {}
    /\ AppNotStarted
    /\ \/ /\ pc = "listening"
          /\ fn = "server"
          /\ \E file \in AnswerKeysFiles :
                exams \in {<<BuiltInExam(file)>>, <<BuiltInExam(file), CreatedExam>>}
          /\ selectedExam = ""
          /\ uploadedFiles = <<>>
       \/ /\ pc = "page"
          /\ fn = "Upload"
          /\ exams = <<>>
          /\ selectedExam \in {""} \cup {row.id : row \in ExamRows}
          /\ uploadedFiles \in {FilesOfBatch(n) : n \in 0..MaxFiles}

NextProcess ==
    \/ PostProcess
    \/ PreprocessSettles
    \/ DetectSettles
    \/ HandleStartProcessing
    \/ StartProcessing
    \/ UploadFilesSettles
    \/ ProcessImageDirectSettles
    \/ ProgressTick

SpecProcess == InitProcess /\ [][NextProcess]_vars

(***************************************************************************)
(* The Upload page alone. The effect that starts the processing runs after *)
(* the render that shows the jobs, and every awaited promise settles: a    *)
(* request resolves or rejects, a timer fires.                             *)
(***************************************************************************)
InitUpload == InitProcess /\ pc = "page"

NextUpload ==
    \/ HandleStartProcessing
    \/ StartProcessing
    \/ UploadFilesSettles
    \/ ProcessImageDirectSettles
    \/ ProgressTick

SpecUpload ==
    /\ InitUpload
    /\ [][NextUpload]_vars
    /\ WF_vars(StartProcessing)
    /\ WF_vars(UploadFilesSettles)
    /\ WF_vars(ProcessImageDirectSettles)
    /\ WF_vars(ProgressTick)

(***************************************************************************)
(* The ImageUploader of the Upload page: files are dropped and removed, and *)
(* an interval started for each dropped file advances its progress.         *)
(***************************************************************************)
\* The maxFiles prop of ImageUploader (10 by default, 20 on the Upload page).
maxFiles == 2

\* Math.random().toString(36).substr(2, 9)
RandomFileIds == {"k3x9qp07z", "d41mw8s2b", "z0c5v7n6a"}

\* The files a user may drop.
FilePool == {[name |-> <<"sheet", k>>] : k \in 1..2}

\* What the dropzone hands to onDrop: with maxFiles set it accepts at most
\* maxFiles files of one drop.
Drops == UNION {[1..n -> FilePool] : n \in 0..maxFiles}

\* Upload.handleFilesSelected
handleFilesSelected(files) == files

\* ImageUploader.onDrop
OnDrop ==
    /\ pc = "uploader"
    /\ \E acceptedFiles \in Drops :
          IF Len(displayed) + Len(acceptedFiles) > maxFiles
          THEN UNCHANGED <<displayed, intervals, uploadedFiles>>
          ELSE \E id \in [1..Len(acceptedFiles) -> RandomFileIds] :
                  LET newFiles == [k \in 1..Len(acceptedFiles) |->
                                      [id |-> id[k],
                                       file |-> acceptedFiles[k],
                                       status |-> "uploading",
                                       progress |-> 0]]
                  IN  /\ displayed' = displayed \o newFiles
                      /\ intervals' = intervals \cup {id[k] : k \in 1..Len(acceptedFiles)}
                      /\ uploadedFiles' = handleFilesSelected(acceptedFiles)
    /\ UNCHANGED <<evalVars, serverVars, appVars, selectedExam, jobs, processingResults, loop,
                   saved, notified>>

\* prev.map(file => file.id === fileId ? { ...file, ...fields } : file)
SetFile(list, fileId, fields) ==
    [k \in 1..Len(list) |->
        IF list[k].id = fileId
        THEN [f \in DOMAIN list[k] |->
                IF f \in DOMAIN fields THEN fields[f] ELSE list[k][f]]
        ELSE list[k]]

\* One tick of the interval of simulateUploadProgress(fileId): the progress
\* it has summed up is below 100, shown here as 50, or has reached 100, which
\* ends the interval.
SimulateUploadProgress ==
    /\ pc = "uploader"
    /\ \E fileId \in intervals, reached \in BOOLEAN :
          IF reached
          THEN /\ displayed' = SetFile(displayed, fileId,
                                       [status |-> "completed", progress |-> 100])
               /\ intervals' = intervals \ {fileId}
          ELSE /\ displayed' = SetFile(displayed, fileId, [progress |-> 50])
               /\ UNCHANGED intervals
    /\ UNCHANGED <<evalVars, serverVars, appVars, selectedExam, uploadedFiles, jobs,
                   processingResults, loop, saved, notified>>

\* prev.filter(f => f.id !== fileId)
FilterOut(list, fileId) == SelectSeq(list, LAMBDA f : f.id # fileId)

\* ImageUploader.removeFile, from the remove button of a displayed file.
RemoveFile ==
    /\ pc = "uploader"
    /\ \E k \in 1..Len(displayed) :
          displayed' = FilterOut(displayed, displayed[k].id)
    /\ UNCHANGED <<evalVars, serverVars, appVars, intervals, selectedExam, uploadedFiles, jobs,
                   processingResults, loop, saved, notified>>

InitUploader ==
    /\ pc = "uploader"
    /\ fn = "ImageUploader"
    /\ answerKeys = MockAnswerKeys
    /\ responses = <<>>
    /\ examSet = "setA"
    /\ detectedAnswers = <<>>
    /\ answerKey = <<>>
    /\ exam = [subjects |-> NoSubjects]
    /\ result = Pending
    /\ arg = 0
    /\ calls = <<>>
    /\ ServerNotStarted
    /\ ClientNotStarted

NextUploader == OnDrop \/ SimulateUploadProgress \/ RemoveFile

SpecUploader == InitUploader /\ [][NextUploader]_vars

(***************************************************************************)
(* The answer-key files of the Admin panel: parseCSV, the template of      *)
(* downloadTemplate and the sample file of FileUploadDemo. A text is the   *)
(* sequence of its characters.                                             *)
(***************************************************************************)
\* How many question rows a generated file holds.
MaxRows == 3

\* String.prototype.split(sep) for a one-character separator.
Split(s, sep) ==
    LET cuts == {i \in 1..Len(s) : s[i] = sep}
        starts == cuts \cup {0}
        ends == cuts \cup {Len(s) + 1}
        Rank(a) == Cardinality({c \in starts : c <= a})
    IN  [k \in 1..Cardinality(starts) |->
            LET a == CHOOSE c \in starts : Rank(c) = k
                b == CHOOSE c \in ends : c > a /\ \A e \in ends : e > a => c <= e
            IN  SubSeq(s, a + 1, b - 1)]

\* ['A', 'B', 'C', 'D']
ValidAnswers == <<<<"A">>, <<"B">>, <<"C">>, <<"D">>>>

\* The answer parseCSV reads from a line.
AnswerOfLine(line) == toUpperCase(trim(Split(line, ",")[2]))

\* The lines after the header from which parseCSV pushes an answer.
PushesAnswer(line) ==
    /\ Len(Split(line, ",")) >= 2
    /\ Includes(ValidAnswers, AnswerOfLine(line))

\* Admin.parseCSV
parseCSV(text) ==
    LET lines == SelectSeq(Split(text, "\n"), LAMBDA line : trim(line) # <<>>)
        rows == IF lines = <<>> THEN <<>> ELSE Tail(lines)
        pushed == SelectSeq(rows, PushesAnswer)
    IN  [k \in 1..Len(pushed) |-> AnswerOfLine(pushed[k])]

HeaderLine == <<"Q", "u", "e", "s", "t", "i", "o", "n", ",", "A", "n", "s", "w", "e", "r", ",", "S", "u", "b", "j", "e", "c", "t">>

PythonName == <<"P", "y", "t", "h", "o", "n">>
EDAName == <<"E", "D", "A">>
SQLName == <<"S", "Q", "L">>
PowerBIName == <<"P", "o", "w", "e", "r", " ", "B", "I">>
StatisticsName == <<"S", "t", "a", "t", "i", "s", "t", "i", "c", "s">>

\* `${i},${answer},${subject}`
RowLine(i, answer, subject) ==
    NumberToString(i) \o <<",">> \o answer \o <<",">> \o subject

\* csvContent += `${i},${answer},${subject}\n` for i from first to last
RECURSIVE RowsText(_, _, _, _)
RowsText(first, last, answer, subject) ==
    IF first > last THEN <<>>
    ELSE RowLine(first, answer, subject) \o <<"\n">>
            \o RowsText(first + 1, last, answer, subject)

\* The answers downloadTemplate writes for questions 1..100.
TemplateAnswer(i) ==
    IF i <= 20 THEN "A" ELSE IF i <= 40 THEN "B" ELSE IF i <= 60 THEN "C"
    ELSE IF i <= 80 THEN "D" ELSE "A"

\* The csvContent of Admin.downloadTemplate.
TemplateText ==
    HeaderLine \o <<"\n">>
    \o RowsText(1, 20, <<"A">>, PythonName)
    \o RowsText(21, 40, <<"B">>, EDAName)
    \o RowsText(41, 60, <<"C">>, SQLName)
    \o RowsText(61, 80, <<"D">>, PowerBIName)
    \o RowsText(81, 100, <<"A">>, StatisticsName)
    \o <<"#", " ", "S", "p", "e", "c", "i", "a", "l", " ", "C", "a", "s", "e", "s", ":", "\n">>
    \o <<"#", " ", "Q", "u", "e", "s", "t", "i", "o", "n", " ", "1", "6", ":", " ", "M", "u", "l", "t", "i", "p", "l", "e", " ", "a", "n", "s", "w", "e", "r", "s", " ", "(", "A", ",", "B", ",", "C", ",", "D", ")", "\n">>
    \o <<"#", " ", "Q", "u", "e", "s", "t", "i", "o", "n", " ", "5", "9", ":", " ", "M", "u", "l", "t", "i", "p", "l", "e", " ", "a", "n", "s", "w", "e", "r", "s", " ", "(", "A", ",", "B", ")", "\n">>

\* The Answer column of FileUploadDemo.sampleCSVData, questions 1..100.
SampleLetters == <<
    "A","B","C","D","A","B","C","D","A","B","C","D","A","B","C","A","B","C","D","A",
    "B","C","D","A","B","C","D","A","B","C","D","A","B","C","D","A","B","C","D","A",
    "C","D","A","B","C","D","A","B","C","D","A","B","C","D","A","B","C","D","A","B",
    "D","A","B","C","D","A","B","C","D","A","B","C","D","A","B","C","D","A","B","C",
    "A","B","C","D","A","B","C","D","A","B","C","D","A","B","C","D","A","B","C","D">>

\* The subject sampleCSVData gives question i.
SampleSubject(i) ==
    IF i <= 20 THEN PythonName ELSE IF i <= 40 THEN EDAName
    ELSE IF i <= 60 THEN SQLName ELSE IF i <= 80 THEN PowerBIName
    ELSE StatisticsName

\* Lines joined with "\n", none after the last.
RECURSIVE JoinLines(_)
JoinLines(lines) ==
    IF lines = <<>> THEN <<>>
    ELSE IF Len(lines) = 1 THEN lines[1]
    ELSE JoinLines(SubSeq(lines, 1, Len(lines) \div 2)) \o <<"\n">>
            \o JoinLines(SubSeq(lines, (Len(lines) \div 2) + 1, Len(lines)))

\* FileUploadDemo.sampleCSVData
SampleText ==
    JoinLines(<<HeaderLine>>
              \o [i \in 1..100 |-> RowLine(i, <<SampleLetters[i]>>, SampleSubject(i))])

\* What the answer column of a row may hold.
AnswerCells ==
    {<<"A">>, <<"b">>, <<" ", "c">>, <<"D", " ">>, <<"E">>, <<>>, <<"A", "B">>}

\* A file of a header line and one row per question 1..n, with the cells of
\* its answer column.
FileOfRows(cells) ==
    [kind |-> "rows",
     cells |-> cells,
     text |-> JoinLines(<<HeaderLine>>
                        \o [i \in 1..Len(cells) |-> RowLine(i, cells[i], PythonName)])]

\* The files parseCSV is given: generated row files, the template, the sample.
CSVInputs ==
    {FileOfRows(cells) : cells \in UNION {[1..n -> AnswerCells] : n \in 0..MaxRows}}
    \cup {[kind |-> "template",
           cells |-> [i \in 1..100 |-> <<TemplateAnswer(i)>>],
           text |-> TemplateText],
          [kind |-> "sample",
           cells |-> [i \in 1..100 |-> <<SampleLetters[i]>>],
           text |-> SampleText]}

InitCSV ==
    /\ pc = "ready"
    /\ fn = "parseCSV"
    /\ arg \in CSVInputs
    /\ result = Pending
    /\ answerKeys = MockAnswerKeys
    /\ responses = <<>>
    /\ examSet = "setA"
    /\ detectedAnswers = <<>>
    /\ answerKey = <<>>
    /\ exam = [subjects |-> NoSubjects]
    /\ calls = <<>>
    /\ ServerNotStarted
    /\ ClientNotStarted

CallParseCSV ==
    /\ pc = "ready"
    /\ fn = "parseCSV"
    /\ result' = [threw |-> FALSE, value |-> parseCSV(arg.text)]
    /\ pc' = "done"
    /\ UNCHANGED <<fn, answerKeys, responses, examSet, detectedAnswers, answerKey, exam,
                   calls, serverVars, clientVars, arg>>

NextCSV == CallParseCSV

SpecCSV == InitCSV /\ [][NextCSV]_vars

(***************************************************************************)
(* AppContext and the Supabase tables behind it                            *)
(***************************************************************************)
MaxAnswers == 3     \* answers of a saved result
MaxSaved == 1       \* rows of omr_results

ResultLetters == {"A", "B"}

\* What Upload.handleProcessingComplete hands to addResult: the detected
\* answers, the count of correct ones and the percentage of the evaluation.
ResultInputs ==
    UNION {{[answers |-> a, score |-> n, percentage |-> Percent(n, len)] :
            a \in [1..len -> ResultLetters], n \in 0..len} : len \in 1..MaxAnswers}

\* A number stored in a DECIMAL(5,2) column: rounded to two decimals.
Numeric52(x) ==
    LET cents == (2 * 100 * x.num + x.den) \div (2 * x.den)
        g     == GCD(cents, 100)
    IN  [kind |-> "number", num |-> cents \div g, den |-> 100 \div g]

\* Math.round of a number that is not negative.
MathRound(x) == (2 * x.num + x.den) \div (2 * x.den)

\* answers.reduce((acc, answer, index) => { acc[index + 1] = [answer] ... }, {})
StudentResponses(answers) == [k \in 1..Len(answers) |-> <<answers[k]>>]

\* Array.prototype.flat() of an array of arrays.
RECURSIVE Flat(_)
Flat(arrays) == IF arrays = <<>> THEN <<>> ELSE Head(arrays) \o Flat(Tail(arrays))

\* Object.values(obj) of an object whose keys are 1..n: ascending key order.
ObjectValues(obj) == [k \in 1..Len(obj) |-> obj[k]]

\* .order(column, {ascending: false}) of rows that were inserted one by one.
RECURSIVE NewestFirst(_)
NewestFirst(rows) ==
    IF rows = <<>> THEN <<>> ELSE <<rows[Len(rows)]>> \o NewestFirst(SubSeq(rows, 1, Len(rows) - 1))

\* The row addResult sends to OMRResultService.saveResult, as the table keeps it.
ResultRow(resultData, id) ==
    [id |-> id,
     student_responses |-> StudentResponses(resultData.answers),
     total_score |-> Numeric52(resultData.percentage)]

\* refreshData: one row of omr_results as a StudentResult.
FormattedResult(row) ==
    [id |-> row.id,
     answers |-> Flat(ObjectValues(row.student_responses)),
     score |-> MathRound(row.total_score),
     percentage |-> row.total_score]

\* refreshData: one row of exams as an ExamData.
FormattedExam(row) ==
    [id |-> row.id,
     totalQuestions |-> row.total_questions,
     answerKey |-> row.answer_key,
     status |-> row.status]

\* addResult: the insert succeeds and the result joins the state, or it
\* fails and the error is thrown on.
AddResult ==
    /\ fn = "AppContext"
    /\ Len(supabase.omr_results) < MaxSaved
    /\ \E resultData \in ResultInputs, ok \in BOOLEAN :
        LET id == Len(supabase.omr_results) + 1 IN
        /\ arg' = resultData
        /\ pc' = IF ok THEN "saved" ELSE "threw"
        /\ supabase' = IF ok
                       THEN [supabase EXCEPT !.omr_results = Append(@, ResultRow(resultData, id))]
                       ELSE supabase
        /\ appContext' = IF ok
                         THEN [appContext EXCEPT
                                  !.results = Append(@, [id |-> id,
                                                         answers |-> resultData.answers,
                                                         score |-> resultData.score,
                                                         percentage |-> resultData.percentage])]
                         ELSE appContext
    /\ UNCHANGED <<fn, answerKeys, responses, examSet, detectedAnswers, answerKey, exam,
                   result, calls, serverVars, selectedExam, uploadedFiles, jobs,
                   processingResults, loop, saved, notified, uploaderVars, admin>>

\* refreshData: both lists are replaced by what the services return, and a
\* service whose query fails returns an empty list.
RefreshData ==
    /\ fn = "AppContext"
    /\ \E examsLoaded \in BOOLEAN, resultsLoaded \in BOOLEAN :
        LET examsData   == IF examsLoaded THEN NewestFirst(supabase.exams) ELSE <<>>
            resultsData == IF resultsLoaded THEN NewestFirst(supabase.omr_results) ELSE <<>>
        IN  appContext' = [exams   |-> [k \in 1..Len(examsData) |-> FormattedExam(examsData[k])],
                           results |-> [k \in 1..Len(resultsData) |->
                                            FormattedResult(resultsData[k])]]
    /\ pc' = "refreshed"
    /\ UNCHANGED <<fn, answerKeys, responses, examSet, detectedAnswers, answerKey, exam,
                   result, calls, serverVars, selectedExam, uploadedFiles, jobs,
                   processingResults, loop, saved, notified, uploaderVars, supabase, admin,
                   arg>>

InitResults ==
    /\ pc = "mounted"
    /\ fn = "AppContext"
    /\ arg = <<>>
    /\ result = Pending
    /\ answerKeys = MockAnswerKeys
    /\ responses = <<>>
    /\ examSet = "setA"
    /\ detectedAnswers = <<>>
    /\ answerKey = <<>>
    /\ exam = [subjects |-> NoSubjects]
    /\ calls = <<>>
    /\ ServerNotStarted
    /\ ClientNotStarted

NextResults == AddResult \/ RefreshData

SpecResults == InitResults /\ [][NextResults]_vars

(***************************************************************************)
(* The Admin page: creating an exam, changing its status, deleting it      *)
(***************************************************************************)
MaxFormQ == 2       \* the largest number typed into Total Questions, and
                    \* the most rows of an answer key file
MaxAdminExams == 1  \* rows of the exams table

\* Everything of the page but the AppContext state and the database.
adminRest == <<fn, pc, answerKeys, responses, examSet, detectedAnswers, answerKey, exam,
               result, calls, serverVars, selectedExam, uploadedFiles, jobs,
               processingResults, loop, saved, notified, uploaderVars>>

\* The answer key files dropped on the form: n rows with the answer B.
KeyFiles == {FileOfRows([k \in 1..n |-> <<"B">>]) : n \in 0..MaxFormQ}

\* onChange of the fields Exam Name and Subject.
SetExamName ==
    /\ fn = "AppContext"
    /\ \E text \in {"", "Exam"} :
          admin' = [admin EXCEPT !.newExam.name = text, !.toast = ""]
    /\ UNCHANGED <<adminRest, supabase, appContext, arg>>

SetSubject ==
    /\ fn = "AppContext"
    /\ \E text \in {"", "Subject"} :
          admin' = [admin EXCEPT !.newExam.subject = text, !.toast = ""]
    /\ UNCHANGED <<adminRest, supabase, appContext, arg>>

\* onChange of Total Questions; the field is disabled while an uploaded key is
\* in use.  An empty field gives 0.
SetTotalQuestions ==
    /\ fn = "AppContext"
    /\ ~(admin.createMethod = "upload" /\ Len(admin.answerKeyData) > 0)
    /\ \E numValue \in 0..MaxFormQ :
          admin' = [admin EXCEPT !.newExam.totalQuestions = numValue, !.toast = ""]
    /\ UNCHANGED <<adminRest, supabase, appContext, arg>>

\* The toggle Manual Entry / Upload File.
SetCreateMethod ==
    /\ fn = "AppContext"
    /\ \E method \in {"manual", "upload"} :
          admin' = [admin EXCEPT !.createMethod = method, !.toast = ""]
    /\ UNCHANGED <<adminRest, supabase, appContext, arg>>

\* Admin.onDrop of a CSV file; the drop zone is shown in upload mode.
AdminOnDrop ==
    /\ fn = "AppContext"
    /\ admin.createMethod = "upload"
    /\ \E file \in KeyFiles :
          LET answers == parseCSV(file.text) IN
          admin' = IF Len(answers) > 0
                   THEN [admin EXCEPT
                            !.answerKeyData = answers,
                            !.newExam.totalQuestions = Len(answers),
                            !.newExam.name = IF @ = "" THEN "answers" ELSE @,
                            !.toast = "Loaded answers"]
                   ELSE [admin EXCEPT !.toast = "No valid answer data found in file"]
    /\ UNCHANGED <<adminRest, supabase, appContext, arg>>

\* The row ExamService.createExam inserts; the table refuses total_questions
\* that is not positive.
InsertedExam(examData, id) ==
    [id |-> id,
     total_questions |-> examData.totalQuestions,
     answer_key |-> examData.answerKey,
     status |-> examData.status]

\* handleCreateExam with the addExam it starts: the insert succeeds and the
\* exam joins the state, or it fails; the page reports success either way.
HandleCreateExam ==
    /\ fn = "AppContext"
    /\ IF admin.newExam.name = "" \/ admin.newExam.subject = ""
       THEN /\ admin' = [admin EXCEPT !.toast = "Please fill in all required fields"]
            /\ UNCHANGED <<supabase, appContext>>
       ELSE IF admin.createMethod = "upload" /\ Len(admin.answerKeyData) = 0
       THEN /\ admin' = [admin EXCEPT !.toast = "Please upload a valid answer key file"]
            /\ UNCHANGED <<supabase, appContext>>
       ELSE IF admin.createMethod = "manual" /\ admin.newExam.totalQuestions <= 0
       THEN /\ admin' = [admin EXCEPT !.toast = "Please enter a valid number of questions"]
            /\ UNCHANGED <<supabase, appContext>>
       ELSE LET finalAnswerKey ==
                    IF admin.createMethod = "upload" /\ Len(admin.answerKeyData) > 0
                    THEN admin.answerKeyData
                    ELSE [k \in 1..admin.newExam.totalQuestions |-> <<"A">>]
                examData == [totalQuestions |-> admin.newExam.totalQuestions,
                             answerKey |-> finalAnswerKey,
                             status |-> admin.newExam.status]
                newExam == InsertedExam(examData, Len(supabase.exams) + 1)
            IN  /\ Len(supabase.exams) < MaxAdminExams
                /\ \E ok \in BOOLEAN :
                      IF ok /\ newExam.total_questions > 0
                      THEN /\ supabase' = [supabase EXCEPT !.exams = Append(@, newExam)]
                           /\ appContext' = [appContext EXCEPT
                                                !.exams = Append(@, FormattedExam(newExam))]
                      ELSE UNCHANGED <<supabase, appContext>>
                /\ admin' = [newExam |-> [name |-> "", subject |-> "",
                                          totalQuestions |-> 50, status |-> "draft"],
                             createMethod |-> "manual",
                             answerKeyData |-> <<>>,
                             toast |-> "Exam created successfully"]
    /\ UNCHANGED <<adminRest, arg>>

\* { ...exam, ...updates } for the fields updateExam passes on.
MergeUpdates(examData, updates) ==
    [field \in DOMAIN examData |->
        IF field \in DOMAIN updates THEN updates[field] ELSE examData[field]]

\* The row of the table after .update(supabaseUpdates).
UpdatedRow(row, updates) ==
    [row EXCEPT !.total_questions = IF "totalQuestions" \in DOMAIN updates
                                    THEN updates.totalQuestions ELSE @,
                !.answer_key = IF "answerKey" \in DOMAIN updates
                               THEN updates.answerKey ELSE @,
                !.status = IF "status" \in DOMAIN updates THEN updates.status ELSE @]

\* handleUpdateExamStatus with the updateExam(examId, { status }) it starts:
\* the row and then the exam of the state take the status, or the update fails.
HandleUpdateExamStatus ==
    /\ fn = "AppContext"
    /\ \E k \in DOMAIN appContext.exams, newStatus \in ExamStatuses, ok \in BOOLEAN :
          LET examId  == appContext.exams[k].id
              updates == [status |-> newStatus]
              found   == \E r \in DOMAIN supabase.exams : supabase.exams[r].id = examId
          IN  /\ arg' = examId
              /\ IF ok /\ found
                 THEN /\ supabase' = [supabase EXCEPT !.exams =
                             [r \in DOMAIN @ |-> IF @[r].id = examId
                                                 THEN UpdatedRow(@[r], updates) ELSE @[r]]]
                      /\ appContext' = [appContext EXCEPT !.exams =
                             [e \in DOMAIN @ |-> IF @[e].id = examId
                                                 THEN MergeUpdates(@[e], updates) ELSE @[e]]]
                 ELSE UNCHANGED <<supabase, appContext>>
              /\ admin' = [admin EXCEPT !.toast = "Exam status updated"]
    /\ UNCHANGED adminRest

\* handleDeleteExam: the user is asked, the id is logged and success is
\* reported.  Neither the database nor the state is touched.
HandleDeleteExam ==
    /\ fn = "AppContext"
    /\ \E k \in DOMAIN appContext.exams, confirmed \in BOOLEAN :
          /\ arg' = appContext.exams[k].id
          /\ admin' = [admin EXCEPT !.toast = IF confirmed
                                              THEN "Exam deleted successfully" ELSE ""]
    /\ UNCHANGED <<adminRest, supabase, appContext>>

InitAdmin == InitResults

NextAdmin ==
    \/ RefreshData
    \/ SetExamName
    \/ SetSubject
    \/ SetTotalQuestions
    \/ SetCreateMethod
    \/ AdminOnDrop
    \/ HandleCreateExam
    \/ HandleUpdateExamStatus
    \/ HandleDeleteExam

SpecAdmin == InitAdmin /\ [][NextAdmin]_vars

(***************************************************************************)
(* Properties                                                              *)
(***************************************************************************)
DoneResponses == pc = "done" /\ fn = "evaluateResponses"

DoneAnswers == pc = "done" /\ fn = "evaluateAnswers"

\* The questions of detailedResults that have the given status.
CountStatus(details, status) ==
    Cardinality({k \in 1..Len(details) : details[k].status = status})

\* The entry of the response array for question q, as the caller gave it.
EntryFor(q) == ArrayGet(responses, q - 1)

\* An entry that is "", absent (null, undefined) or made of whitespace only.
BlankEntry(v) ==
    v.kind # "string" \/ \A k \in 1..Len(v.chars) : IsWhitespace(v.chars[k])

\* The accepted answers of question q, when the exam set has a special case for it.
AcceptedFor(q) == KeyForSet(examSet).specialCases[NumberToString(q)].acceptedAnswers

SpecialCaseQuestions ==
    {q \in 1..TotalQuestions : HasSpecialCase(KeyForSet(examSet).specialCases, q)}

\* C1: for every response sequence, the totalScore evaluateResponses returns is
\* the number of detailedResults entries with status 'correct' and equals
\* summary.correct, and totalScore + summary.incorrect + summary.unanswered is
\* the number of questions N of the answer key.
C1_ScoreCounts ==
    DoneResponses =>
        /\ ~result.threw
        /\ result.value.totalScore = CountStatus(result.value.detailedResults, "correct")
        /\ result.value.totalScore = result.value.summary.correct
        /\ result.value.totalScore + result.value.summary.incorrect
                + result.value.summary.unanswered
              = Len(KeyForSet(examSet).rawAnswers)

C1_Witness ==
    /\ DoneResponses
    /\ ~result.threw
    /\ result.value.totalScore > 0
    /\ result.value.summary.incorrect > 0
    /\ result.value.summary.unanswered > 0

\* C3: a question with a special case whose response is non-empty and, in lower
\* case, one of the accepted answers is scored isCorrect = TRUE with status
\* 'correct', whatever the answer key says for it.
C3_SpecialCaseAccepts ==
    DoneResponses =>
        \A q \in SpecialCaseQuestions :
            (/\ EntryFor(q).kind = "string"
             /\ EntryFor(q).chars # <<>>
             /\ Includes(AcceptedFor(q), toLowerCase(EntryFor(q).chars)))
            => /\ ~result.threw
               /\ result.value.detailedResults[q].isCorrect
               /\ result.value.detailedResults[q].status = "correct"

\* Question 16 of set A answered D, where the key says a.
C3_Witness ==
    /\ DoneResponses
    /\ examSet = "setA"
    /\ EntryFor(16) = Str(<<"D">>)
    /\ answerKeys.setA.rawAnswers[16] = Str(<<"a">>)
    /\ ~result.threw
    /\ result.value.detailedResults[16].status = "correct"

\* C4: a special case replaces the answer key: a question with a special case
\* whose response equals the key's letter but is not one of the accepted answers
\* is scored incorrect.
C4_SpecialCaseOverridesKey ==
    DoneResponses =>
        \A q \in SpecialCaseQuestions :
            (/\ EntryFor(q).kind = "string"
             /\ EntryFor(q).chars # <<>>
             /\ toLowerCase(EntryFor(q).chars)
                    = toLowerCase(KeyForSet(examSet).rawAnswers[q].chars)
             /\ ~Includes(AcceptedFor(q), toLowerCase(EntryFor(q).chars)))
            => /\ ~result.threw
               /\ ~result.value.detailedResults[q].isCorrect
               /\ result.value.detailedResults[q].status = "incorrect"

\* Question 59 of set B answered c, the key's letter, which is not accepted.
C4_Witness ==
    /\ DoneResponses
    /\ examSet = "setB"
    /\ EntryFor(59) = Str(<<"c">>)
    /\ answerKeys.setB.rawAnswers[59] = Str(<<"c">>)
    /\ ~result.threw
    /\ result.value.detailedResults[59].status = "incorrect"

\* The counters of a results object.
Counters(results) ==
    [totalScore |-> results.totalScore,
     summary |-> results.summary,
     subjectCorrect |->
        [sub \in DOMAIN results.subjectScores |-> results.subjectScores[sub].correct]]

\* The loop of evaluateResponses on the call's responses, iterations i .. n - 1,
\* keeping the counters as they are after each iteration.
RECURSIVE CountersLoop(_, _, _)
CountersLoop(acc, i, n) ==
    IF acc.threw \/ i >= n THEN acc
    ELSE IF n - i = 1
    THEN LET step == EvalQuestion(acc.results, i, responses,
                                  KeyForSet(examSet).rawAnswers,
                                  KeyForSet(examSet).specialCases)
         IN  IF step.threw THEN [acc EXCEPT !.threw = TRUE]
             ELSE [threw |-> FALSE,
                   results |-> step.value,
                   counters |-> Append(acc.counters, Counters(step.value))]
    ELSE LET mid == i + ((n - i) \div 2)
         IN  CountersLoop(CountersLoop(acc, i, mid), mid, n)

\* counters[q] holds the counters before question q, counters[q + 1] after it.
CountersByQuestion ==
    CountersLoop([threw |-> FALSE, results |-> NewResults,
                  counters |-> <<Counters(NewResults)>>],
                 0, LoopBound(responses)).counters

\* C5: a response entry that is empty, absent or whitespace-only makes its
\* question 'unanswered' and not correct, adds exactly one to summary.unanswered
\* and leaves totalScore, summary.correct, summary.incorrect and every subject's
\* correct counter as they were; special-case questions included.
C5_BlankIsUnanswered ==
    DoneResponses =>
        \A counters \in {CountersByQuestion} :
            /\ ~result.threw
            /\ Len(counters) = TotalQuestions + 1
            /\ counters[Len(counters)] = Counters(result.value)
            /\ \A q \in 1..TotalQuestions :
                  BlankEntry(EntryFor(q)) =>
                    /\ result.value.detailedResults[q].status = "unanswered"
                    /\ ~result.value.detailedResults[q].isCorrect
                    /\ counters[q + 1].summary.unanswered
                            = counters[q].summary.unanswered + 1
                    /\ counters[q + 1].totalScore = counters[q].totalScore
                    /\ counters[q + 1].summary.correct = counters[q].summary.correct
                    /\ counters[q + 1].summary.incorrect = counters[q].summary.incorrect
                    /\ counters[q + 1].subjectCorrect = counters[q].subjectCorrect

\* A whitespace-only entry at special-case question 16, after correct answers.
C5_Witness ==
    /\ DoneResponses
    /\ EntryFor(16) = Str(<<" ">>)
    /\ EntryFor(15).kind = "string"
    /\ ~result.threw
    /\ result.value.detailedResults[15].status = "correct"
    /\ result.value.detailedResults[16].status = "unanswered"
    /\ result.value.summary.unanswered = 1

\* An entry with its letters in upper case (up) or in lower case.
InCase(v, up) ==
    IF v.kind = "string"
    THEN Str(IF up THEN toUpperCase(v.chars) ELSE toLowerCase(v.chars))
    ELSE v

ResponsesInCase(up) == [k \in 1..Len(responses) |-> InCase(responses[k], up)]

DetectedInCase(up) ==
    [k \in 1..Len(detectedAnswers) |->
        [detectedAnswers[k] EXCEPT !.detectedAnswer = InCase(@, up)]]

\* C6: the comparison ignores letter case: evaluating the same sheet with its
\* letters put in upper case, or in lower case, gives every question the same
\* isCorrect and status in evaluateResponses (special cases included) and the
\* same isCorrect in evaluateAnswers.
C6_CaseInsensitive ==
    /\ DoneResponses =>
          \A up \in BOOLEAN :
              \A other \in {evaluateResponses(ResponsesInCase(up), examSet)} :
                  /\ ~result.threw
                  /\ ~other.threw
                  /\ \A q \in 1..TotalQuestions :
                        /\ other.value.detailedResults[q].isCorrect
                              = result.value.detailedResults[q].isCorrect
                        /\ other.value.detailedResults[q].status
                              = result.value.detailedResults[q].status
    /\ DoneAnswers =>
          \A up \in BOOLEAN :
              \A other \in {evaluateAnswers(DetectedInCase(up), answerKey, exam)} :
                  /\ other.threw = result.threw
                  /\ ~result.threw =>
                        /\ Len(other.value.evaluation) = Len(result.value.evaluation)
                        /\ \A k \in 1..Len(result.value.evaluation) :
                              other.value.evaluation[k].isCorrect
                                  = result.value.evaluation[k].isCorrect

\* The server scores a detected 'a' against the key's 'A' as correct.
C6_Witness ==
    /\ DoneAnswers
    /\ Len(detectedAnswers) >= 1
    /\ Len(answerKey) >= 1
    /\ detectedAnswers[1].detectedAnswer = Str(<<"a">>)
    /\ answerKey[1] = Str(<<"A">>)
    /\ ~result.threw
    /\ result.value.evaluation[1].isCorrect

\* C7: with fewer than N response entries evaluateResponses raises no error,
\* detailedResults still has N entries, every question beyond the end of the
\* responses is 'unanswered', and summary.unanswered counts the unanswered
\* questions.
C7_ShortResponses ==
    (DoneResponses /\ Len(responses) < Len(KeyForSet(examSet).rawAnswers)) =>
        /\ ~result.threw
        /\ Len(result.value.detailedResults) = Len(KeyForSet(examSet).rawAnswers)
        /\ \A q \in (Len(responses) + 1)..Len(KeyForSet(examSet).rawAnswers) :
              /\ result.value.detailedResults[q].status = "unanswered"
              /\ ~result.value.detailedResults[q].isCorrect
        /\ result.value.summary.unanswered
              = CountStatus(result.value.detailedResults, "unanswered")
        /\ result.value.summary.unanswered
              >= Len(KeyForSet(examSet).rawAnswers) - Len(responses)

\* A sheet whose last entry is missing: the questions before it are scored.
C7_Witness ==
    /\ DoneResponses
    /\ Len(responses) > 0
    /\ Len(responses) < TotalQuestions
    /\ ~result.threw
    /\ result.value.totalScore > 0
    /\ result.value.detailedResults[TotalQuestions].status = "unanswered"

\* The sum of the correct counters of the subjects in names.
RECURSIVE SumCorrect(_, _)
SumCorrect(subjectScores, names) ==
    IF names = {} THEN 0
    ELSE LET sub == CHOOSE x \in names : TRUE
         IN  subjectScores[sub].correct + SumCorrect(subjectScores, names \ {sub})

\* C2: the correct counters of the subjects add up to the overall score:
\* totalScore in evaluateResponses, score and correctAnswers in evaluateAnswers,
\* for any detected answers and any subject ranges of the exam.
C2_SubjectsSumToScore ==
    /\ (DoneResponses /\ ~result.threw) =>
          SumCorrect(result.value.subjectScores, DOMAIN result.value.subjectScores)
              = result.value.totalScore
    /\ (DoneAnswers /\ ~result.threw) =>
          /\ SumCorrect(result.value.subjectScores, DOMAIN result.value.subjectScores)
                = result.value.score
          /\ result.value.score = result.value.correctAnswers

\* The first n entries of an array.
FirstEntries(arr, n) == SubSeq(arr, 1, IF Len(arr) < n THEN Len(arr) ELSE n)

\* C8: response entries beyond the N of the answer key are ignored: the
\* evaluation raises no error and returns what it returns for the first N
\* entries, in evaluateResponses and in evaluateAnswers (for an exam that has
\* subjects).
C8_ExtraEntriesIgnored ==
    /\ (DoneResponses /\ Len(responses) > Len(KeyForSet(examSet).rawAnswers)) =>
          /\ ~result.threw
          /\ result = evaluateResponses(
                        FirstEntries(responses, Len(KeyForSet(examSet).rawAnswers)),
                        examSet)
    /\ (DoneAnswers /\ exam.subjects.kind = "object"
                    /\ Len(detectedAnswers) > Len(answerKey)) =>
          /\ ~result.threw
          /\ result = evaluateAnswers(FirstEntries(detectedAnswers, Len(answerKey)),
                                      answerKey, exam)

\* The questions of the sheet that evaluateAnswers scores against a key entry.
ScoredQuestions ==
    {detectedAnswers[k].questionNumber :
        k \in 1..(IF Len(detectedAnswers) < Len(answerKey)
                  THEN Len(detectedAnswers) ELSE Len(answerKey))}

\* C10: a question in 1..N that no subject segment covers makes the evaluation
\* fail and return no result: in evaluateResponses when getSubjectForQuestion
\* knows no subject for it, in evaluateAnswers when no range of exam.subjects
\* holds it.
C10_UncoveredQuestionFails ==
    /\ (DoneResponses /\ \E q \in 1..Len(KeyForSet(examSet).rawAnswers) :
                            getSubjectForQuestion(q) = "Unknown")
          => result.threw
    /\ (DoneAnswers /\ exam.subjects.kind = "object"
                    /\ \E q \in ScoredQuestions :
                          /\ q \in 1..Len(answerKey)
                          /\ SubjectOf(exam.subjects.entries, q) = "Unknown")
          => result.threw

ZeroPercent == Percent(0, 1)

\* C11: the overall percentage of a result is totalScore / N * 100, N being the
\* number of questions of the answer key, and 0 when N = 0; in
\* evaluateResponses and in evaluateAnswers (an empty answer key included).
C11_OverallPercentage ==
    /\ (DoneResponses /\ ~result.threw) =>
          \A n \in {Len(KeyForSet(examSet).rawAnswers)} :
              result.value.percentage
                  = IF n = 0 THEN ZeroPercent ELSE Percent(result.value.totalScore, n)
    /\ (DoneAnswers /\ ~result.threw) =>
          \A n \in {Len(answerKey)} :
              result.value.percentage
                  = IF n = 0 THEN ZeroPercent ELSE Percent(result.value.score, n)

\* The questions of 1..n that the exam's subjects give to subject sub.
QuestionsOfSubject(entries, sub, n) == {q \in 1..n : SubjectOf(entries, q) = sub}

\* C12: for every subject of the returned subjectScores, percentage is
\* correct / total * 100, total is the number of questions attributed to the
\* subject, and percentage is 0 for a subject without questions; in
\* evaluateResponses and in evaluateAnswers (a subject of count 0 included).
C12_SubjectPercentage ==
    /\ (DoneResponses /\ ~result.threw) =>
          \A sub \in DOMAIN result.value.subjectScores :
              \A score \in {result.value.subjectScores[sub]} :
                  /\ score.total
                        = Cardinality({q \in 1..Len(KeyForSet(examSet).rawAnswers) :
                                          getSubjectForQuestion(q) = sub})
                  /\ score.percentage
                        = IF score.total = 0 THEN ZeroPercent
                          ELSE Percent(score.correct, score.total)
    /\ (DoneAnswers /\ ~result.threw) =>
          \A sub \in DOMAIN result.value.subjectScores :
              \A score \in {result.value.subjectScores[sub]} :
                  /\ score.total
                        = Cardinality(QuestionsOfSubject(exam.subjects.entries, sub,
                                                         Len(answerKey)))
                  /\ score.percentage
                        = IF score.total = 0 THEN ZeroPercent
                          ELSE Percent(score.correct, score.total)

C14_MissingKeyFails ==
    (DoneResponses /\ examSet \notin DOMAIN answerKeys) => result.threw

\* The answer letters of a sheet.
AnswerAlphabet == {"a", "b", "c", "d"}

\* A non-empty entry that is not one letter of the alphabet, in either case.
OffAlphabet(v) ==
    /\ ~BlankEntry(v)
    /\ \A c \in AnswerAlphabet : toLowerCase(v.chars) # <<c>>

OffAlphabetQuestions == {q \in 1..TotalQuestions : OffAlphabet(EntryFor(q))}

\* The call's responses with the entries of the questions qs left empty.
ResponsesWithEmpty(qs) ==
    [k \in 1..Len(responses) |-> IF k \in qs THEN Str(<<>>) ELSE responses[k]]

\* C15: a non-empty entry that is not a letter of the answer alphabet ('e',
\* 'ab', ' b ') never aborts evaluateResponses: its question is scored
\* 'incorrect' and adds one to summary.incorrect, and every other question is
\* scored as on the sheet that has these entries empty.
C15_OffAlphabetIsIncorrect ==
    DoneResponses =>
        \A offs \in {OffAlphabetQuestions} :
            \A other \in {evaluateResponses(ResponsesWithEmpty(offs), examSet)} :
                /\ ~result.threw
                /\ ~other.threw
                /\ \A q \in offs :
                      /\ result.value.detailedResults[q].status = "incorrect"
                      /\ ~result.value.detailedResults[q].isCorrect
                /\ result.value.summary.incorrect
                      = other.value.summary.incorrect + Cardinality(offs)
                /\ result.value.summary.unanswered
                      = other.value.summary.unanswered - Cardinality(offs)
                /\ result.value.summary.correct = other.value.summary.correct
                /\ result.value.totalScore = other.value.totalScore
                /\ \A q \in (1..TotalQuestions) \ offs :
                      result.value.detailedResults[q] = other.value.detailedResults[q]

\* Set A's key with 'ab' at question 16, where a, b, c and d are accepted.
C15_Witness ==
    /\ DoneResponses
    /\ examSet = "setA"
    /\ EntryFor(16) = Str(<<"a", "b">>)
    /\ ~result.threw
    /\ result.value.detailedResults[16].status = "incorrect"
    /\ result.value.summary.incorrect = 1
    /\ result.value.totalScore = TotalQuestions - 1

C17_ActiveKeyImmutable ==
    [][\A i \in 1..Len(exams) :
          (/\ exams[i].status = "active"
           /\ i <= Len(exams')
           /\ exams'[i].id = exams[i].id)
          => exams'[i].answerKey = exams[i].answerKey]_vars

\* The subjects whose list of the mapping holds question q.
SubjectsHolding(mapping, q) ==
    {sub \in DOMAIN mapping : \E k \in 1..Len(mapping[sub]) : mapping[sub][k] = q}

\* C18: the subject map is a partition of the question range: each
\* getSubjectForQuestion gives question q of 1..100 the subject of its block of
\* 20, in the order of the subjects, and generateSubjectMapping(N) puts every
\* question of 1..N in exactly one subject, each subject holding consecutive
\* questions: five subjects of 20 for N = 100, else one subject holding 1..N.
C18_SubjectMapPartition ==
    /\ (/\ pc = "done"
        /\ fn \in {"getSubjectForQuestion", "getSubjectForQuestionOfServer"}
        /\ arg \in 1..TotalQuestions)
       => result.value = Subjects[((arg - 1) \div SubjectTotal) + 1]
    /\ (pc = "done" /\ fn = "generateSubjectMapping") =>
          \A mapping \in {result.value} :
              /\ \A q \in 1..arg : Cardinality(SubjectsHolding(mapping, q)) = 1
              /\ \A sub \in DOMAIN mapping :
                    /\ \A k \in 1..Len(mapping[sub]) : mapping[sub][k] \in 1..arg
                    /\ \A k \in 1..(Len(mapping[sub]) - 1) :
                          mapping[sub][k + 1] = mapping[sub][k] + 1
              /\ IF arg = 100
                 THEN /\ Cardinality(DOMAIN mapping) = 5
                      /\ \A sub \in DOMAIN mapping : Len(mapping[sub]) = 20
                 ELSE /\ DOMAIN mapping = {"General"}
                      /\ Len(mapping["General"]) = arg

\* The mapping of a 100-question exam, whose fourth subject ends at question 80,
\* has been generated.
C18_Witness ==
    /\ pc = "done"
    /\ fn = "generateSubjectMapping"
    /\ arg = 100
    /\ "Power BI" \in DOMAIN result.value
    /\ result.value["Power BI"][20] = 80
    /\ result.value["Statistics"][1] = 81

\* C19: with the 100 responses equal to the letters of the exam set's answer
\* key, evaluateResponses returns percentage 100, totalScore 100, no incorrect
\* and no unanswered question and, for every subject, correct = 20 and
\* percentage 100; for each exam set.
C19_AllCorrectIsFullScore ==
    (/\ DoneResponses
     /\ examSet \in DOMAIN answerKeys
     /\ responses = answerKeys[examSet].rawAnswers)
    => /\ ~result.threw
       /\ result.value.totalScore = TotalQuestions
       /\ result.value.percentage = Percent(1, 1)
       /\ result.value.summary.incorrect = 0
       /\ result.value.summary.unanswered = 0
       /\ \A sub \in DOMAIN result.value.subjectScores :
             /\ result.value.subjectScores[sub].correct = SubjectTotal
             /\ result.value.subjectScores[sub].percentage = Percent(1, 1)

\* C20: a sheet processed for exam E is scored against the configuration of E,
\* in processOMRFile and in RealTimeProcessor: the exam set the OMR script is
\* started with is the exam's set, and since the script is given the exam set
\* alone, two sheets scored with the same exam set belong to exams with the
\* same answer key.
C20_ScoredAgainstExamConfiguration ==
    /\ \A k \in 1..Len(spawned) :
          spawned[k].sheetOf.examSet # NoExamSet
          => spawned[k].examSet = spawned[k].sheetOf.examSet
    /\ \A k, l \in 1..Len(spawned) :
          spawned[k].examSet = spawned[l].examSet
          => spawned[k].sheetOf.answerKey = spawned[l].sheetOf.answerKey

\* C21: a job whose preprocessing and detection both succeeded, once its
\* processOMRFile call has returned, is 'completed' with progress 100 and an
\* endTime, and the results list holds one result for each such job.
C21_SucceededJobCompletes ==
    LET succeeded == {t \in 1..Len(tasks) :
                         tasks[t].at = "returned" /\ tasks[t].resolved = 2}
    IN  /\ \A t \in succeeded :
              /\ processingJobs[tasks[t].entry].status = "completed"
              /\ processingJobs[tasks[t].entry].progress = 100
              /\ "endTime" \in DOMAIN processingJobs[tasks[t].entry]
        /\ Len(storedResults) = Cardinality(succeeded)

\* The status changes a job may make.
StatusMoves ==
    {<<"pending", "processing">>, <<"processing", "completed">>,
     <<"processing", "failed">>}

\* C22: under any interleaving of the server's jobs, every step leaves each
\* job's status where it is or moves it pending -> processing ->
\* (completed | failed), never lowers a job's progress, keeps progress 100
\* exactly for the completed jobs, and changes only the entries of the jobs
\* whose processOMRFile call took the step.
C22_JobsAreIsolated ==
    [][\A k \in 1..Len(processingJobs) :
          /\ \/ processingJobs'[k].status = processingJobs[k].status
             \/ <<processingJobs[k].status, processingJobs'[k].status>> \in StatusMoves
          /\ processingJobs'[k].progress >= processingJobs[k].progress
          /\ processingJobs'[k].progress = 100
                <=> processingJobs'[k].status = "completed"
          /\ processingJobs'[k] # processingJobs[k]
                => \E t \in 1..Len(tasks') :
                      /\ tasks'[t].entry = k
                      /\ t > Len(tasks) \/ tasks'[t] # tasks[t]]_vars

TerminalStatuses == {"completed", "failed"}

\* The jobs of the shown batch with the given status, in list order.
JobsWithStatus(status) == {k \in 1..Len(jobs) : jobs[k].status = status}

\* What holds of the shown batch in every state: at most one job is
\* 'processing'; a job is taken up only when all jobs before it are terminal;
\* the processor has invoked at most one callback; onComplete comes when all
\* jobs are terminal, with one result per completed job, in list order;
\* onError comes with no job taken up.
OneAtATime ==
    /\ Cardinality(JobsWithStatus("processing")) <= 1
    /\ \A k \in 1..Len(jobs) :
          jobs[k].status # "pending"
          => \A j \in 1..(k - 1) : jobs[j].status \in TerminalStatuses
    /\ Len(notified) <= 1
    /\ \A n \in 1..Len(notified) :
          IF notified[n].callback = "onComplete"
          THEN /\ \A k \in 1..Len(jobs) : jobs[k].status \in TerminalStatuses
               /\ Len(notified[n].results) = Cardinality(JobsWithStatus("completed"))
               /\ \A r \in 1..Len(notified[n].results) :
                     \E k \in JobsWithStatus("completed") :
                        /\ Cardinality({j \in JobsWithStatus("completed") : j <= k}) = r
                        /\ jobs[k].result = notified[n].results[r]
          ELSE \A k \in 1..Len(jobs) : jobs[k].status = "pending"

\* C23: RealTimeProcessor processes the files one at a time in list order;
\* once the upload succeeded every job becomes 'completed' or 'failed' and
\* onComplete is invoked, once, after all jobs are terminal, with one result per
\* completed job; while the upload is awaited, a callback follows, and it is
\* onError alone when the upload fails.
C23_OneAtATimeThenOnComplete ==
    /\ []OneAtATime
    /\ (loop.at = "uploadFiles") ~> (Len(notified) = 1)
    /\ (loop.at \in {"processImageDirect", "progress"})
          ~> (/\ \A k \in 1..Len(jobs) : jobs[k].status \in TerminalStatuses
              /\ Len(notified) = 1 /\ notified[1].callback = "onComplete")

\* A batch of two files whose first file failed and whose second was completed
\* has been handed over.
C23_Witness ==
    /\ Len(jobs) = 2
    /\ jobs[1].status = "failed" /\ jobs[2].status = "completed"
    /\ Len(notified) = 1 /\ notified[1].callback = "onComplete"
    /\ Len(notified[1].results) = 1

\* C24: every result saved by handleProcessingComplete carries the fileName of
\* the uploaded file from which it was produced, whichever files of the batch
\* failed.
C24_SavedFileNameIsSource ==
    \A n \in 1..Len(saved) : saved[n].fileName = saved[n].sheet

\* The files the uploader displays, in order.
DisplayedFiles == [k \in 1..Len(displayed) |-> displayed[k].file]

\* C25: after any sequence of drops and removals, the files the Upload page
\* holds for processing are the files the uploader displays, and the uploader
\* never displays more than maxFiles files.
C25_PageHoldsDisplayedFiles ==
    /\ uploadedFiles = DisplayedFiles
    /\ Len(displayed) <= maxFiles

DoneCSV == pc = "done" /\ fn = "parseCSV"

\* C26: for a file of a header line and one row per question 1..n, parseCSV
\* returns n answers and answer i is the upper-cased (and trimmed) content of
\* the answer column of question i, whatever that content is.
C26_ParseCSVKeepsAlignment ==
    (DoneCSV /\ arg.kind = "rows")
    => /\ Len(result.value) = Len(arg.cells)
       /\ \A i \in 1..Len(arg.cells) : result.value[i] = toUpperCase(trim(arg.cells[i]))

\* C27: parseCSV applied to the text of downloadTemplate, and to the sample
\* CSV of FileUploadDemo, returns exactly 100 answers, answer i being the
\* file's answer for question i.
C27_TemplateParsesTo100 ==
    (DoneCSV /\ arg.kind \in {"template", "sample"})
    => /\ Len(result.value) = 100
       /\ \A i \in 1..100 : result.value[i] = arg.cells[i]

\* Two results with the same id carry the same score, percentage and answers.
SameResult(a, b) ==
    a.id = b.id => /\ a.score = b.score
                   /\ a.percentage = b.percentage
                   /\ a.answers = b.answers

\* C28: a result saved with addResult and reloaded with refreshData has the
\* same score, the same percentage and the same ordered answers as before:
\* no step changes these fields of a result that stays in the state.
C28_SaveReloadRoundTrip ==
    [][\A i \in DOMAIN appContext.results, j \in DOMAIN appContext'.results :
         SameResult(appContext.results[i], appContext'.results[j])]_vars


\* C29: after any sequence of exam creations and updates, by the server's
\* requests or by the Admin page, every exam's answer key has exactly
\* totalQuestions entries.
C29_KeyLengthIsTotalQuestions ==
    /\ \A i \in 1..Len(exams) : Len(exams[i].answerKey) = exams[i].totalQuestions
    /\ \A k \in DOMAIN appContext.exams :
          Len(appContext.exams[k].answerKey) = appContext.exams[k].totalQuestions

\* C30: when the deletion of an exam was confirmed and 'Exam deleted
\* successfully' is shown, that exam is not in the exam list of the state.
C30_DeletedExamLeavesState ==
    admin.toast = "Exam deleted successfully"
        => \A k \in DOMAIN appContext.exams : appContext.exams[k].id # arg

====
